---- MODULE Spec2Model ----
(***************************************************************************)
(* StructLab (structmech-lab): the computation engine of the structural    *)
(* mechanics teaching tool.                                                *)
(*                                                                         *)
(* Numbers.  The program computes in IEEE-754 doubles.  Two idealisations  *)
(* are used here:                                                          *)
(*   - the closed-form solvers (beam, truss) are evaluated in exact        *)
(*     rational arithmetic, a number being a pair <<n, d>> in lowest terms *)
(*     with d > 0; the non-finite doubles are the pairs with d = 0:        *)
(*     <<1,0>> = +Infinity, <<-1,0>> = -Infinity, <<0,0>> = NaN;           *)
(*   - the time-stepped oscillator is evaluated in fixed point with        *)
(*     FPScale units per 1.0 and round-to-nearest after every product or   *)
(*     quotient (a double rounds the same operations to 53 bits).          *)
(***************************************************************************)
EXTENDS Integers, Sequences, FiniteSets

(***************************************************************************)
(* Rational arithmetic with the non-finite values of a double.             *)
(***************************************************************************)
Abs(n) == IF n < 0 THEN -n ELSE n

Sgn(n) == IF n < 0 THEN -1 ELSE IF n > 0 THEN 1 ELSE 0

RECURSIVE GCD(_, _)
GCD(a, b) == IF b = 0 THEN a ELSE GCD(b, a % b)

NaN == <<0, 0>>

Inf(s) == <<s, 0>>

IsFinite(q) == q[2] # 0

IsNaN(q) == q = NaN

Rat(n, d) ==
  IF d = 0 THEN Inf(Sgn(n))
  ELSE LET g == GCD(Abs(n), Abs(d))
       IN  <<(Sgn(d) * n) \div g, Abs(d) \div g>>

Q(n) == <<n, 1>>

RNeg(a) == <<-a[1], a[2]>>

RAdd(a, b) ==
  IF IsFinite(a) /\ IsFinite(b)
  THEN LET g == GCD(a[2], b[2])
       IN  Rat(a[1] * (b[2] \div g) + b[1] * (a[2] \div g),
               (a[2] \div g) * b[2])
  ELSE IF IsNaN(a) \/ IsNaN(b) THEN NaN
  ELSE IF IsFinite(a) THEN b
  ELSE IF IsFinite(b) THEN a
  ELSE IF a = b THEN a ELSE NaN

RSub(a, b) == RAdd(a, RNeg(b))

RMul(a, b) ==
  IF IsFinite(a) /\ IsFinite(b)
  THEN LET g == GCD(Abs(a[1]), b[2])
           h == GCD(Abs(b[1]), a[2])
       IN  Rat((a[1] \div g) * (b[1] \div h), (a[2] \div h) * (b[2] \div g))
  ELSE IF IsNaN(a) \/ IsNaN(b) THEN NaN
  ELSE IF a[1] = 0 \/ b[1] = 0 THEN NaN
  ELSE Inf(Sgn(a[1]) * Sgn(b[1]))

RDiv(a, b) ==
  IF IsFinite(a) /\ IsFinite(b)
  THEN IF b[1] = 0 THEN Inf(Sgn(a[1]))
       ELSE RMul(a, <<Sgn(b[1]) * b[2], Abs(b[1])>>)
  ELSE IF IsNaN(a) \/ IsNaN(b) THEN NaN
  ELSE IF IsFinite(a) THEN Q(0)
  ELSE IF IsFinite(b) THEN Inf(a[1] * (IF b[1] < 0 THEN -1 ELSE 1))
  ELSE NaN

RLt(a, b) ==
  IF IsNaN(a) \/ IsNaN(b) THEN FALSE
  ELSE IF IsFinite(a) /\ IsFinite(b)
  THEN LET g == GCD(a[2], b[2])
       IN  a[1] * (b[2] \div g) < b[1] * (a[2] \div g)
  ELSE IF IsFinite(a) THEN b[1] > 0
  ELSE IF IsFinite(b) THEN a[1] < 0
  ELSE a[1] < b[1]

RLe(a, b) == (~IsNaN(a) /\ ~IsNaN(b)) /\ (a = b \/ RLt(a, b))

RAbs(a) == <<Abs(a[1]), a[2]>>

\* Math.max(a, b): NaN as soon as one argument is NaN.
RMax(a, b) ==
  IF IsNaN(a) \/ IsNaN(b) THEN NaN ELSE IF RLt(a, b) THEN b ELSE a

\* Math.pow(a, 2)
RSq(a) == RMul(a, a)

(***************************************************************************)
(* Fixed point, FPScale units per 1.0.                                     *)
(***************************************************************************)
FPScale == 1000

\* n / d rounded to the nearest integer (d > 0).
RoundDiv(n, d) == (2 * n + d) \div (2 * d)

\* the fixed-point value of the integer n
FP(n) == n * FPScale

\* the fixed-point value of the rational q
ToFP(q) == RoundDiv(q[1] * FPScale, q[2])

\* x * q for a fixed-point x and a rational q
FMulR(x, q) == RoundDiv(x * q[1], q[2])

\* x * y for two fixed-point values
FMul(x, y) == RoundDiv(x * y, FPScale)

\* x / n for a fixed-point x and a positive integer n
FDivI(x, n) == RoundDiv(x, n)

\* Math.sin(q), by its Maclaurin polynomial x - x^3/6 + x^5/120, which
\* agrees with the sine to the fixed-point resolution on the arguments
\* |q| <= 1 that the bounded runs reach.
Sin(q) ==
  LET x  == ToFP(q)
      x3 == FMul(FMul(x, x), x)
      x5 == FMul(FMul(x3, x), x)
  IN  x - RoundDiv(x3, 6) + RoundDiv(x5, 120)

(***************************************************************************)
(* State.                                                                  *)
(***************************************************************************)
VARIABLES
  \* VibrationModule: useState values
  mass, k, c, fMag, fFreq, isPlaying, displayPos, forceVal,
  \* VibrationModule: useRef values
  timeRef, posRef, velRef, requestRef,
  \* the browser's queue of requested animation frames: records
  \* [id, cl], cl being the values the queued stepPhysics closure captured
  frames,
  \* number of executions of stepPhysics since the last reset (history)
  ticks,
  \* the operation that produced the current state (history)
  lastOp,
  \* BeamModule: useState values, and the value of its useMemo
  beamType, loadType, loadPos, loadMag, beamLength, beamOut,
  \* TrussModule: useState values (its loadMag is trussLoadMag here), and the
  \* reactions and member forces its render computes
  loadX, trussLoadMag, trussOut,
  \* FrameModule: useState values, and the moment fields its render computes
  latLoad, vertLoad, height, span, frameOut,
  \* BucklingModule: useState values, and the values its render computes
  bc, length, load, ei, bucklingOut,
  \* MohrModule: useState values, and the circle its render computes
  sx, sy, txy, mohrOut,
  \* SectionModule: useState values (its height and width are secHeight and
  \* secWidth here), and the values its render computes
  sectionType, moment, secHeight, secWidth, tf, tw, sectionOut,
  \* ConcreteModule: useState values (its b and h are rcB and rcH here), and
  \* the values its render computes
  fc, fy, rcB, rcH, As, rcOut,
  \* App: useState value, the module renderModule() mounts
  activeModule

appVars == <<activeModule>>

vibVars == <<mass, k, c, fMag, fFreq, isPlaying, displayPos, forceVal,
             timeRef, posRef, velRef, requestRef, frames, ticks, lastOp>>

beamVars == <<beamType, loadType, loadPos, loadMag, beamLength, beamOut>>

trussVars == <<loadX, trussLoadMag, trussOut>>

frameVars == <<latLoad, vertLoad, height, span, frameOut>>

bucklingVars == <<bc, length, load, ei, bucklingOut>>

mohrVars == <<sx, sy, txy, mohrOut>>

sectionVars == <<sectionType, moment, secHeight, secWidth, tf, tw, sectionOut>>

concreteVars == <<fc, fy, rcB, rcH, As, rcOut>>

vars == <<vibVars, beamVars, trussVars, frameVars, bucklingVars, mohrVars, sectionVars, concreteVars,
          appVars>>

(***************************************************************************)
(* Bounds and input sets.                                                  *)
(***************************************************************************)
\* stepPhysics runs at most MaxTicks times between two resets
MaxTicks == 3

\* slider positions tried for each parameter (subsets of the slider ranges)
MassValues == {5, 10}

KValues == {50, 100}

CValues == {Rat(1, 1), Rat(1, 2)}

FreqValues == {Rat(1, 1), Rat(5, 2)}

\* BeamModule slider positions tried (length 2..20, load 10..100, position
\* 0..100 %)
BeamLengthValues == {2, 3, 5, 7, 10, 20}

LoadMagValues == {10, 37, 50, 100}

LoadPosValues == {0, 1, 25, 50, 70, 99, 100}

\* arguments handed to the beam computation when it is exercised as a
\* function, beyond what the sliders can produce
BeamLengthInputs == {-1, 0, 2, 10}

LoadPosInputs == {-50, 0, 50, 150}

\* TrussModule slider positions tried (position 0..100 %, load 50..500)
LoadXValues == {5 * i : i \in 0..20} \cup {1, 99}

TrussLoadValues == {50, 80, 100, 200, 350, 500}

\* forcing magnitudes handed to stepPhysics when it is exercised as a
\* function of fMag (the module itself never calls setFMag)
FMagInputs == {0, 2}

\* FrameModule slider positions tried (loads 0..100, height 3..8, span 4..10)
LatLoadValues == {0, 30, 50, 100}

VertLoadValues == {0, 20, 50, 100}

HeightValues == {3, 6, 8}

SpanValues == {4, 8, 10}

\* BucklingModule positions tried (load 10..500, length 2..10, EI 500..5000
\* in steps of 100)
BucklingLoadValues == {10, 100, 484, 500}

LengthValues == {2, 5, 10}

EiValues == {500, 2000, 4900}

\* MohrModule slider positions tried (sx, sy -100..100, txy -50..50)
SxValues == {-100, -20, 10, 50, 100}

SyValues == {-100, 10, 50, 70}

TxyValues == {-50, -20, 0, 15, 20, 50}

\* SectionModule slider positions tried (h 100..500, b 50..300, tf 5..40,
\* tw 5..30, M 10..500)
SecHeightValues == {100, 400, 500}

SecWidthValues == {50, 200, 300}

TfValues == {5, 20, 40}

TwValues == {5, 10, 30}

MomentValues == {10, 50, 100, 500}

\* arguments the sliders cannot produce: flanges that meet or overlap, a web
\* as wide as the flange or wider, no moment, a reversed moment
TfInputs == TfValues \cup {50, 100}

TwInputs == TwValues \cup {50, 100}

MomentInputs == MomentValues \cup {-50, 0}

\* ConcreteModule slider positions tried (As 200..4000 in steps of 50,
\* fc 20..60)
AsValues == {200, 250, 1000, 3450, 3600, 4000}

FcValues == {20, 25, 30, 40, 50, 60}

\* arguments the controls cannot produce: a weak concrete, another steel, a
\* very shallow section, a very small steel area and none
FcInputs == {5, 30}

FyInputs == {300, 400}

RcBInputs == {250}

RcHInputs == {45, 500}

AsInputs == {0, 15, 1000, 4000}

(***************************************************************************)
(* VibrationModule                                                         *)
(***************************************************************************)
\* const dt = 0.016
dt == Rat(2, 125)

\* the values a stepPhysics closure created by the current render captures
Closure == [mass |-> mass, k |-> k, c |-> c, fMag |-> fMag, fFreq |-> fFreq]

\* F_ext with the forcing frequency left out
F_extNoFreq(fm, ff, t) == fm * 10 * Sin(t)

\* const F_ext = fMag * 10 * Math.sin(fFreq * t)
F_ext(fm, ff, t) == fm * 10 * Sin(RMul(ff, t))

\* const force = F_ext - k * posRef.current - c * velRef.current;
\* const accel = force / mass
Accel(F, cl, x, v) == FDivI(F - cl.k * x - FMulR(v, cl.c), cl.mass)

\* velRef.current += accel * dt
StepVel(v, a) == v + FMulR(a, dt)

\* posRef.current += velRef.current * dt   (velRef already updated)
StepPos(x, vNew) == x + FMulR(vNew, dt)

\* timeRef.current += dt
StepTime(t) == RAdd(t, dt)

\* a cancelAnimationFrame that leaves the callback queued
CancelAnimationFrameNone(fr, id) == fr

\* cancelAnimationFrame(id)
CancelAnimationFrame(fr, id) == {f \in fr : f.id # id}

\* the id returned by requestAnimationFrame: one the browser has not in use
\* and that the program does not hold (ids are never reused by the browser;
\* the only id the program keeps is requestRef.current, which the caller
\* overwrites with the new id)
NewId(fr, ref) ==
  CHOOSE i \in 1..(Cardinality(fr) + 2) : i # ref /\ \A f \in fr : f.id # i

\* requestAnimationFrame(stepPhysics), stepPhysics having captured cl
RequestAnimationFrame(fr, ref, cl) == fr \cup {[id |-> NewId(fr, ref), cl |-> cl]}

\* return () => { if (requestRef.current) cancelAnimationFrame(...) }
EffectCleanup(fr, ref) == IF ref # 0 THEN CancelAnimationFrame(fr, ref) ELSE fr

\* an effect that never cancels the frame it requested
RunEffectNoCancel(playing, fr, ref, cl) ==
  IF playing
  THEN <<RequestAnimationFrame(fr, ref, cl), NewId(fr, ref)>>
  ELSE <<fr, ref>>

\* The useEffect with dependencies [isPlaying, k, c, mass, fMag, fFreq] after
\* one of them changed: the previous effect's cleanup, then the effect body
\* with the new render's values.  Result: <<frames, requestRef.current>>.
RunEffect(playing, fr, ref, cl) ==
  LET fr1 == EffectCleanup(fr, ref)
  IN  IF playing
      THEN <<RequestAnimationFrame(fr1, ref, cl), NewId(fr1, ref)>>
      ELSE <<IF ref # 0 THEN CancelAnimationFrame(fr1, ref) ELSE fr1, ref>>

VibInit ==
  /\ mass = 5
  /\ k = 50
  /\ c = Rat(1, 1)
  /\ fMag = 0
  /\ fFreq = Rat(1, 1)
  /\ isPlaying = FALSE
  /\ timeRef = Q(0)
  /\ posRef = FP(100)
  /\ velRef = 0
  /\ requestRef = 0
  /\ displayPos = FP(100)
  /\ forceVal = 0
  /\ frames = {}
  /\ ticks = 0
  /\ lastOp = "init"

\* A change of isPlaying or of a parameter: React re-renders and, the update
\* coming from a discrete input event (click, change), flushes the effect
\* synchronously before the handler's task ends.
Rerender(playing, cl) ==
  LET e == RunEffect(playing, frames, requestRef, cl)
  IN  /\ frames' = e[1]
      /\ requestRef' = e[2]

\* a start that also rewinds the clock
StartRewinds ==
  /\ ~isPlaying
  /\ isPlaying' = TRUE
  /\ timeRef' = Q(0)
  /\ Rerender(TRUE, Closure)
  /\ UNCHANGED <<mass, k, c, fMag, fFreq, displayPos, forceVal,
                 posRef, velRef, ticks>>
  /\ lastOp' = "start"

\* onClick={() => setIsPlaying(!isPlaying)} while stopped
Start ==
  /\ ~isPlaying
  /\ isPlaying' = TRUE
  /\ Rerender(TRUE, Closure)
  /\ UNCHANGED <<mass, k, c, fMag, fFreq, displayPos, forceVal,
                 timeRef, posRef, velRef, ticks>>
  /\ lastOp' = "start"

\* onClick={() => setIsPlaying(!isPlaying)} while running
Pause ==
  /\ isPlaying
  /\ isPlaying' = FALSE
  /\ Rerender(FALSE, Closure)
  /\ UNCHANGED <<mass, k, c, fMag, fFreq, displayPos, forceVal,
                 timeRef, posRef, velRef, ticks>>
  /\ lastOp' = "pause"

\* a reset that leaves the velocity as it is
ResetKeepsVelocity ==
  /\ isPlaying' = FALSE
  /\ posRef' = FP(100)
  /\ timeRef' = Q(0)
  /\ displayPos' = FP(100)
  /\ forceVal' = 0
  /\ ticks' = 0
  /\ IF isPlaying
     THEN Rerender(FALSE, Closure)
     ELSE UNCHANGED <<frames, requestRef>>
  /\ UNCHANGED <<mass, k, c, fMag, fFreq, velRef>>
  /\ lastOp' = "reset"

\* const reset = () => {...}
Reset ==
  /\ isPlaying' = FALSE
  /\ posRef' = FP(100)
  /\ velRef' = 0
  /\ timeRef' = Q(0)
  /\ displayPos' = FP(100)
  /\ forceVal' = 0
  /\ ticks' = 0
  /\ IF isPlaying
     THEN Rerender(FALSE, Closure)
     ELSE UNCHANGED <<frames, requestRef>>
  /\ UNCHANGED <<mass, k, c, fMag, fFreq>>
  /\ lastOp' = "reset"

\* stepPhysics with integration order swapped: the displacement is advanced
\* with the velocity of the previous tick (explicit Euler)
StepPhysicsExplicit(cl, t, x, v) ==
  LET F  == F_ext(cl.fMag, cl.fFreq, t)
      a  == Accel(F, cl, x, v)
  IN  [forceVal |-> F, vel |-> StepVel(v, a), pos |-> StepPos(x, v),
       time |-> StepTime(t)]

\* const stepPhysics = () => {...}: the values it writes, from the values
\* cl it captured and the refs (t, x, v) it reads
StepPhysics(cl, t, x, v) ==
  LET F  == F_ext(cl.fMag, cl.fFreq, t)
      a  == Accel(F, cl, x, v)
      v1 == StepVel(v, a)
  IN  [forceVal |-> F, vel |-> v1, pos |-> StepPos(x, v1),
       time |-> StepTime(t)]

\* the browser runs a queued frame callback: stepPhysics as captured, which
\* ends by requesting the next frame for the same closure
Tick ==
  /\ ticks < MaxTicks
  /\ \E f \in frames :
       LET s   == StepPhysics(f.cl, timeRef, posRef, velRef)
           fr1 == frames \ {f}
       IN  /\ forceVal' = s.forceVal
           /\ velRef' = s.vel
           /\ posRef' = s.pos
           /\ timeRef' = s.time
           /\ displayPos' = s.pos
           /\ frames' = RequestAnimationFrame(fr1, requestRef, f.cl)
           /\ requestRef' = NewId(fr1, requestRef)
  /\ ticks' = ticks + 1
  /\ UNCHANGED <<mass, k, c, fMag, fFreq, isPlaying>>
  /\ lastOp' = "tick"

\* <Slider label="质量 (m)" ... onChange={setMass} />
SetMass ==
  \E v \in MassValues :
    /\ v # mass
    /\ mass' = v
    /\ Rerender(isPlaying, [Closure EXCEPT !.mass = v])
    /\ UNCHANGED <<k, c, fMag, fFreq, isPlaying, displayPos, forceVal,
                   timeRef, posRef, velRef, ticks>>
    /\ lastOp' = "param"

\* a setK whose change does not run the effect again, as with k missing in
\* the dependencies of the effect
SetKNoEffect ==
  \E v \in KValues :
    /\ v # k
    /\ k' = v
    /\ UNCHANGED <<frames, requestRef>>
    /\ UNCHANGED <<mass, c, fMag, fFreq, isPlaying, displayPos, forceVal,
                   timeRef, posRef, velRef, ticks>>
    /\ lastOp' = "param"

\* <Slider label="刚度 (k)" ... onChange={setK} />
SetK ==
  \E v \in KValues :
    /\ v # k
    /\ k' = v
    /\ Rerender(isPlaying, [Closure EXCEPT !.k = v])
    /\ UNCHANGED <<mass, c, fMag, fFreq, isPlaying, displayPos, forceVal,
                   timeRef, posRef, velRef, ticks>>
    /\ lastOp' = "param"

\* <Slider label="阻尼 (c)" ... onChange={setC} />
SetC ==
  \E v \in CValues :
    /\ v # c
    /\ c' = v
    /\ Rerender(isPlaying, [Closure EXCEPT !.c = v])
    /\ UNCHANGED <<mass, k, fMag, fFreq, isPlaying, displayPos, forceVal,
                   timeRef, posRef, velRef, ticks>>
    /\ lastOp' = "param"

\* <Slider label="激励频率 (ω)" ... onChange={setFFreq} />
SetFFreq ==
  \E v \in FreqValues :
    /\ v # fFreq
    /\ fFreq' = v
    /\ Rerender(isPlaying, [Closure EXCEPT !.fFreq = v])
    /\ UNCHANGED <<mass, k, c, fMag, isPlaying, displayPos, forceVal,
                   timeRef, posRef, velRef, ticks>>
    /\ lastOp' = "param"

VibNext ==
  \/ Start
  \/ Pause
  \/ Reset
  \/ Tick
  \/ SetMass
  \/ SetK
  \/ SetC
  \/ SetFFreq


(***************************************************************************)
(* BeamModule                                                              *)
(*                                                                         *)
(* The useMemo callback, without the deflected-shape path string (drawing  *)
(* only).  A field is a sequence of points [x, y], x in drawing units      *)
(* (DRAW_W for the whole span).  thrown is the exception the callback      *)
(* ends with; it has no throw statement.                                   *)
(***************************************************************************)
SVG_W == 800

MARGIN_X == 80

DRAW_W == Q(SVG_W - 2 * MARGIN_X)

numPoints == 100

Pt(x, y) == [x |-> x, y |-> y]

\* rb with the distances of the load to the two supports exchanged
RbFromFarSide(P, a, L) == RDiv(RMul(P, RSub(L, a)), L)

\* rb = (P * a) / L
SimpleRb(P, a, L) == RDiv(RMul(P, a), L)

\* mx without the halving of the load term
SimpleUdlMxNoHalf(ra, P, x) == RSub(RMul(ra, x), RMul(RMul(P, x), x))

\* const mx = (ra * x) - (P * x * x / 2)
SimpleUdlMx(ra, P, x) ==
  RSub(RMul(ra, x), RDiv(RMul(RMul(P, x), x), Q(2)))

\* mx measured from the fixed end instead of from the free end
CantileverUdlMxFromFixed(P, L, x) == RNeg(RDiv(RMul(P, RSq(x)), Q(2)))

\* const mx = - (P * Math.pow(L - x, 2)) / 2
CantileverUdlMx(P, L, x) == RDiv(RNeg(RMul(P, RSq(RSub(L, x)))), Q(2))

SimplePoint(L, P, a_ratio) ==
  LET a    == RMul(a_ratio, L)
      b    == RSub(L, a)
      rb   == SimpleRb(P, a, L)
      ra   == RSub(P, rb)
      maxM == RDiv(RMul(RMul(P, a), b), L)
      xa   == RMul(a_ratio, DRAW_W)
  IN  [thrown |-> "none", ra |-> ra, rb |-> rb, ma |-> Q(0), mb |-> Q(0),
       maxV |-> RMax(ra, rb), maxM |-> maxM,
       sfdPoints |-> <<Pt(Q(0), ra), Pt(xa, ra), Pt(xa, RNeg(rb)),
                       Pt(DRAW_W, RNeg(rb))>>,
       bmdPoints |-> <<Pt(Q(0), Q(0)), Pt(xa, maxM), Pt(DRAW_W, Q(0))>>]

SimpleUdl(L, P) ==
  LET W      == RMul(P, L)
      ra     == RDiv(W, Q(2))
      rb     == RDiv(W, Q(2))
      dx     == RDiv(DRAW_W, Q(numPoints))
      dxReal == RDiv(L, Q(numPoints))
  IN  [thrown |-> "none", ra |-> ra, rb |-> rb, ma |-> Q(0), mb |-> Q(0),
       maxV |-> ra, maxM |-> RDiv(RMul(RMul(P, L), L), Q(8)),
       sfdPoints |-> <<Pt(Q(0), ra), Pt(DRAW_W, RNeg(rb))>>,
       bmdPoints |-> [n \in 1..(numPoints + 1) |->
                        Pt(RMul(Q(n - 1), dx),
                           SimpleUdlMx(ra, P, RMul(Q(n - 1), dxReal)))]]

CantileverPoint(L, P, a_ratio) ==
  LET a  == RMul(a_ratio, L)
      ma == RMul(RNeg(P), a)
      xa == RMul(a_ratio, DRAW_W)
  IN  [thrown |-> "none", ra |-> P, rb |-> Q(0), ma |-> ma, mb |-> Q(0),
       maxV |-> P, maxM |-> RAbs(ma),
       sfdPoints |-> <<Pt(Q(0), P), Pt(xa, P), Pt(xa, Q(0)),
                       Pt(DRAW_W, Q(0))>>,
       bmdPoints |-> <<Pt(Q(0), ma), Pt(xa, Q(0)), Pt(DRAW_W, Q(0))>>]

CantileverUdl(L, P) ==
  LET W      == RMul(P, L)
      ma     == RDiv(RNeg(RMul(RMul(P, L), L)), Q(2))
      dx     == RDiv(DRAW_W, Q(numPoints))
      dxReal == RDiv(L, Q(numPoints))
  IN  [thrown |-> "none", ra |-> W, rb |-> Q(0), ma |-> ma, mb |-> Q(0),
       maxV |-> W, maxM |-> RAbs(ma),
       sfdPoints |-> <<Pt(Q(0), W), Pt(DRAW_W, Q(0))>>,
       bmdPoints |-> [n \in 1..(numPoints + 1) |->
                        Pt(RMul(Q(n - 1), dx),
                           CantileverUdlMx(P, L, RMul(Q(n - 1), dxReal)))]]

\* useMemo(() => {...}, [beamType, loadType, loadPos, loadMag, beamLength])
BeamCalc(bt, lt, pos, mag, len) ==
  LET L       == Q(len)
      P       == Q(mag)
      a_ratio == RDiv(Q(pos), Q(100))
  IN  IF bt = "simple"
      THEN IF lt = "point" THEN SimplePoint(L, P, a_ratio) ELSE SimpleUdl(L, P)
      ELSE IF lt = "point" THEN CantileverPoint(L, P, a_ratio)
                           ELSE CantileverUdl(L, P)

BeamInit ==
  /\ beamType = "simple"
  /\ loadType = "point"
  /\ loadPos = 50
  /\ loadMag = 50
  /\ beamLength = 10
  /\ beamOut = BeamCalc("simple", "point", 50, 50, 10)

\* onClick={() => setBeamType(...)}
SetBeamType ==
  \E v \in {"simple", "cantilever"} :
    /\ v # beamType
    /\ beamType' = v
    /\ beamOut' = BeamCalc(v, loadType, loadPos, loadMag, beamLength)
    /\ UNCHANGED <<loadType, loadPos, loadMag, beamLength>>

\* onClick={() => setLoadType(...)}
SetLoadType ==
  \E v \in {"point", "udl"} :
    /\ v # loadType
    /\ loadType' = v
    /\ beamOut' = BeamCalc(beamType, v, loadPos, loadMag, beamLength)
    /\ UNCHANGED <<beamType, loadPos, loadMag, beamLength>>

\* setLoadPos(v); the position slider is rendered for a point load only
SetLoadPos(S) ==
  \E v \in S :
    /\ loadType = "point"
    /\ v # loadPos
    /\ loadPos' = v
    /\ beamOut' = BeamCalc(beamType, loadType, v, loadMag, beamLength)
    /\ UNCHANGED <<beamType, loadType, loadMag, beamLength>>

\* setLoadMag(v)
SetLoadMag(S) ==
  \E v \in S :
    /\ v # loadMag
    /\ loadMag' = v
    /\ beamOut' = BeamCalc(beamType, loadType, loadPos, v, beamLength)
    /\ UNCHANGED <<beamType, loadType, loadPos, beamLength>>

\* setBeamLength(v)
SetBeamLength(S) ==
  \E v \in S :
    /\ v # beamLength
    /\ beamLength' = v
    /\ beamOut' = BeamCalc(beamType, loadType, loadPos, loadMag, v)
    /\ UNCHANGED <<beamType, loadType, loadPos, loadMag>>

\* the module as its sliders and buttons drive it
BeamNext ==
  \/ SetBeamType
  \/ SetLoadType
  \/ SetLoadPos(LoadPosValues)
  \/ SetLoadMag(LoadMagValues)
  \/ SetBeamLength(BeamLengthValues)

\* the computation driven with arguments the sliders cannot produce
BeamFnNext ==
  \/ SetBeamType
  \/ SetLoadType
  \/ SetLoadPos(LoadPosInputs)
  \/ SetLoadMag(LoadMagValues)
  \/ SetBeamLength(BeamLengthInputs)

(***************************************************************************)
(* TrussModule                                                             *)
(***************************************************************************)
\* floor of the square root of the natural number n
ISqrt(n) == CHOOSE r \in 0..n : r * r <= n /\ n < (r + 1) * (r + 1)

\* Math.sqrt(q), exact when q is the square of a rational (dx*dx + dy*dy is)
RSqrt(q) == Rat(ISqrt(q[1]), ISqrt(q[2]))

SPAN == 12

HEIGHT == 4

nodes ==
  <<[id |-> 0, x |-> Q(0), y |-> Q(0)],
    [id |-> 1, x |-> RDiv(Q(SPAN), Q(2)), y |-> Q(0)],
    [id |-> 2, x |-> Q(SPAN), y |-> Q(0)],
    [id |-> 3, x |-> RDiv(Q(SPAN), Q(4)), y |-> Q(HEIGHT)],
    [id |-> 4, x |-> RMul(Q(SPAN), Rat(3, 4)), y |-> Q(HEIGHT)]>>

\* const px = (loadX / 100) * SPAN
TrussPx(lx) == RMul(RDiv(Q(lx), Q(100)), Q(SPAN))

\* r2 taken over the half span
TrussR2HalfSpan(P, px) == RDiv(RMul(P, px), RDiv(Q(SPAN), Q(2)))

\* const r2 = (loadMag * px) / SPAN
TrussR2(P, px) == RDiv(RMul(P, px), Q(SPAN))

\* const r0 = loadMag - r2
TrussR0(P, r2) == RSub(P, r2)

hyp == RSqrt(RAdd(RSq(RDiv(Q(SPAN), Q(4))), RSq(Q(HEIGHT))))

sin == RDiv(Q(HEIGHT), hyp)

cos == RDiv(RDiv(Q(SPAN), Q(4)), hyp)

\* the nodal loads interpolated over the whole span instead of the half span
NodalLoadsFullSpan(P, px) ==
  LET half == RDiv(Q(SPAN), Q(2))
      full == Q(SPAN)
  IN  IF RLe(px, half)
      THEN LET ratio == RDiv(px, full)
           IN  [p0 |-> RMul(P, RSub(Q(1), ratio)), p1 |-> RMul(P, ratio),
                p2 |-> Q(0)]
      ELSE LET ratio == RDiv(RSub(px, half), full)
           IN  [p0 |-> Q(0), p1 |-> RMul(P, RSub(Q(1), ratio)),
                p2 |-> RMul(P, ratio)]

\* let p0, p1, p2: the load resolved onto the bottom-chord nodes
NodalLoads(P, px) ==
  LET half == RDiv(Q(SPAN), Q(2))
  IN  IF RLe(px, half)
      THEN LET ratio == RDiv(px, half)
           IN  [p0 |-> RMul(P, RSub(Q(1), ratio)), p1 |-> RMul(P, ratio),
                p2 |-> Q(0)]
      ELSE LET ratio == RDiv(RSub(px, half), half)
           IN  [p0 |-> Q(0), p1 |-> RMul(P, RSub(Q(1), ratio)),
                p2 |-> RMul(P, ratio)]

Member(id, nodeA, nodeB, force) ==
  [id |-> id, nodeA |-> nodeA, nodeB |-> nodeB, force |-> force]

\* calcForces with the top chord taken from the sum of the diagonals at
\* joint 3
calcForcesTopFromSum(P, px, r0, r2) ==
  LET p   == NodalLoads(P, px)
      f03 == RDiv(RSub(p.p0, r0), sin)
      f01 == RMul(RNeg(f03), cos)
      f42 == RDiv(RSub(p.p2, r2), sin)
      f12 == RMul(RNeg(f42), cos)
      f31 == RNeg(f03)
      f34 == RMul(RAdd(f03, f31), cos)
      f14 == RNeg(f42)
  IN  <<Member(0, 0, 1, f01), Member(1, 1, 2, f12), Member(2, 3, 4, f34),
        Member(3, 0, 3, f03), Member(4, 3, 1, f31), Member(5, 1, 4, f14),
        Member(6, 4, 2, f42)>>

\* const calcForces = () => {...}
calcForces(P, px, r0, r2) ==
  LET p   == NodalLoads(P, px)
      f03 == RDiv(RSub(p.p0, r0), sin)
      f01 == RMul(RNeg(f03), cos)
      f42 == RDiv(RSub(p.p2, r2), sin)
      f12 == RMul(RNeg(f42), cos)
      f31 == RNeg(f03)
      f34 == RMul(RSub(f03, f31), cos)
      f14 == RNeg(f42)
  IN  <<Member(0, 0, 1, f01), Member(1, 1, 2, f12), Member(2, 3, 4, f34),
        Member(3, 0, 3, f03), Member(4, 3, 1, f31), Member(5, 1, 4, f14),
        Member(6, 4, 2, f42)>>

\* a getColor for which a force of magnitude 1 is still a zero force
getColorOneIsZero(f) ==
  IF RLe(RAbs(f), Q(1)) THEN "#94a3b8"
  ELSE IF RLt(Q(0), f) THEN "#ef4444" ELSE "#3b82f6"

\* const getColor = (f: number) => {...}: grey for a zero member, red for
\* tension, blue for compression
getColor(f) ==
  IF RLt(RAbs(f), Q(1)) THEN "#94a3b8"
  ELSE IF RLt(Q(0), f) THEN "#ef4444" ELSE "#3b82f6"

\* what a render of the module computes from loadX and loadMag; stroke is
\* the colour of the line of each member, members.map(... getColor(m.force))
TrussCalc(lx, mag) ==
  LET P  == Q(mag)
      px == TrussPx(lx)
      r2 == TrussR2(P, px)
      r0 == TrussR0(P, r2)
      ms == calcForces(P, px, r0, r2)
  IN  [px |-> px, r0 |-> r0, r2 |-> r2, members |-> ms,
       stroke |-> [i \in 1..Len(ms) |-> getColor(ms[i].force)]]

TrussInit ==
  /\ loadX = 50
  /\ trussLoadMag = 100
  /\ trussOut = TrussCalc(50, 100)

\* <Slider label="载荷位置 (x)" ... onChange={setLoadX} />
SetLoadX ==
  \E v \in LoadXValues :
    /\ v # loadX
    /\ loadX' = v
    /\ trussOut' = TrussCalc(v, trussLoadMag)
    /\ UNCHANGED trussLoadMag

\* <Slider label="载荷重量 (P)" ... onChange={setLoadMag} />
SetTrussLoadMag ==
  \E v \in TrussLoadValues :
    /\ v # trussLoadMag
    /\ trussLoadMag' = v
    /\ trussOut' = TrussCalc(loadX, v)
    /\ UNCHANGED loadX

TrussNext ==
  \/ SetLoadX
  \/ SetTrussLoadMag

(***************************************************************************)
(* FrameModule                                                             *)
(*                                                                         *)
(* The three bending-moment fields of the portal frame, each a sequence of *)
(* points [x, y] as the code pushes them: a column point carries the       *)
(* moment, negated, in x and the height in y; a beam point carries the     *)
(* position in x and the moment in y.                                      *)
(***************************************************************************)
\* gravity node moment taken as the simple-beam value P*L/8, unreduced
M_grav_nodeUnreduced(vl, sp) == RDiv(RMul(Q(vl), Q(sp)), Q(8))

\* const M_grav_node = (vertLoad * span / 8) * 0.7
M_grav_node(vl, sp) == RMul(RDiv(RMul(Q(vl), Q(sp)), Q(8)), Rat(7, 10))

\* const M_grav_mid = (vertLoad * span / 4) - M_grav_node
M_grav_mid(vl, sp) == RSub(RDiv(RMul(Q(vl), Q(sp)), Q(4)), M_grav_node(vl, sp))

\* the sway moment taken from the span instead of the column height
M_sway_baseOfSpan(ll, ht, sp) == RMul(RDiv(Q(ll), Q(2)), RDiv(Q(sp), Q(2)))

\* const M_sway_base = (latLoad / 2) * (height / 2); the span is not used
M_sway_base(ll, ht, sp) == RMul(RDiv(Q(ll), Q(2)), RDiv(Q(ht), Q(2)))

\* getColAC_BMD: samples i = 0..10 up the column
getColAC_BMD(ll, ht, sp) ==
  [j \in 1..11 |->
     LET y      == RMul(Rat(j - 1, 10), Q(ht))
         m_sway == RMul(M_sway_base(ll, ht, sp),
                        RSub(Q(1), RMul(Q(2), RDiv(y, Q(ht)))))
     IN  [x |-> RNeg(m_sway), y |-> y]]

\* getBeamCD_BMD: samples i = 0..20 along the beam
getBeamCD_BMD(ll, vl, ht, sp) ==
  [j \in 1..21 |->
     LET x      == RMul(Rat(j - 1, 20), Q(sp))
         m_sway == RMul(RNeg(M_sway_base(ll, ht, sp)),
                        RSub(Q(1), RMul(Q(2), RDiv(x, Q(sp)))))
         m_grav == IF RLt(x, RDiv(Q(sp), Q(2)))
                   THEN RSub(RMul(RDiv(Q(vl), Q(2)), x), M_grav_node(vl, sp))
                   ELSE RSub(RMul(RDiv(Q(vl), Q(2)), RSub(Q(sp), x)),
                             M_grav_node(vl, sp))
     IN  [x |-> x, y |-> RAdd(m_sway, m_grav)]]

\* getColBD_BMD: the same field as column AC
getColBD_BMD(ll, ht, sp) ==
  [j \in 1..11 |->
     LET y      == RMul(Rat(j - 1, 10), Q(ht))
         m_sway == RMul(M_sway_base(ll, ht, sp),
                        RSub(Q(1), RMul(Q(2), RDiv(y, Q(ht)))))
     IN  [x |-> RNeg(m_sway), y |-> y]]

\* what a render of the module computes
FrameCalc(ll, vl, ht, sp) ==
  [M_grav_node |-> M_grav_node(vl, sp),
   M_grav_mid  |-> M_grav_mid(vl, sp),
   M_sway_base |-> M_sway_base(ll, ht, sp),
   colAC  |-> getColAC_BMD(ll, ht, sp),
   beamCD |-> getBeamCD_BMD(ll, vl, ht, sp),
   colBD  |-> getColBD_BMD(ll, ht, sp)]

FrameInit ==
  /\ latLoad = 50
  /\ vertLoad = 50
  /\ height = 6
  /\ span = 8
  /\ frameOut = FrameCalc(50, 50, 6, 8)

\* <Slider label="侧向力 (Wind H)" ... onChange={setLatLoad} />
SetLatLoad ==
  \E v \in LatLoadValues :
    /\ v # latLoad
    /\ latLoad' = v
    /\ frameOut' = FrameCalc(v, vertLoad, height, span)
    /\ UNCHANGED <<vertLoad, height, span>>

\* <Slider label="竖向力 (Gravity P)" ... onChange={setVertLoad} />
SetVertLoad ==
  \E v \in VertLoadValues :
    /\ v # vertLoad
    /\ vertLoad' = v
    /\ frameOut' = FrameCalc(latLoad, v, height, span)
    /\ UNCHANGED <<latLoad, height, span>>

\* <Slider label="层高 (Height)" ... onChange={setHeight} />
SetHeight ==
  \E v \in HeightValues :
    /\ v # height
    /\ height' = v
    /\ frameOut' = FrameCalc(latLoad, vertLoad, v, span)
    /\ UNCHANGED <<latLoad, vertLoad, span>>

\* <Slider label="跨度 (Span)" ... onChange={setSpan} />
SetSpan ==
  \E v \in SpanValues :
    /\ v # span
    /\ span' = v
    /\ frameOut' = FrameCalc(latLoad, vertLoad, height, v)
    /\ UNCHANGED <<latLoad, vertLoad, height>>

FrameNext ==
  \/ SetLatLoad
  \/ SetVertLoad
  \/ SetHeight
  \/ SetSpan

(***************************************************************************)
(* BucklingModule                                                          *)
(*                                                                         *)
(* Math.PI is the double nearest pi; it is taken here as the rational      *)
(* 22/7, so that a critical load is a rational number.  The path of the    *)
(* column is kept at its two ends, where the angles of its shape functions *)
(* are whole quarter turns.                                                *)
(***************************************************************************)
PI == Rat(22, 7)

BoundaryType == {"pinned-pinned", "fixed-free", "fixed-fixed", "fixed-pinned"}

\* the table with the factors of the two fixed-end classes exchanged
BOUNDARIESExchanged ==
  [b \in BoundaryType |->
     [k |-> CASE b = "pinned-pinned" -> Rat(1, 1)
              [] b = "fixed-free"    -> Rat(2, 1)
              [] b = "fixed-fixed"   -> Rat(7, 10)
              [] b = "fixed-pinned"  -> Rat(1, 2)]]

\* const BOUNDARIES: the effective-length factor of each boundary condition
BOUNDARIES ==
  [b \in BoundaryType |->
     [k |-> CASE b = "pinned-pinned" -> Rat(1, 1)
              [] b = "fixed-free"    -> Rat(2, 1)
              [] b = "fixed-fixed"   -> Rat(1, 2)
              [] b = "fixed-pinned"  -> Rat(7, 10)]]

\* const pCr = (Math.PI * Math.PI * ei) / Math.pow(k * length, 2)
pCrOf(b, len, e) ==
  RDiv(RMul(RMul(PI, PI), Q(e)), RSq(RMul(BOUNDARIES[b].k, Q(len))))

\* const isBuckled = load > pCr
isBuckledOf(ld, pCr) == RLt(pCr, Q(ld))

\* the deflection without the Math.min clamp
maxDeflectionUnclamped(ld, pCr) ==
  IF isBuckledOf(ld, pCr)
  THEN RMul(RDiv(RSub(Q(ld), pCr), pCr), Q(50))
  ELSE Q(0)

\* const maxDeflection = isBuckled ? Math.min((load - pCr) / pCr * 50, 60) : 0
maxDeflectionOf(ld, pCr) ==
  IF isBuckledOf(ld, pCr)
  THEN LET d == RMul(RDiv(RSub(Q(ld), pCr), pCr), Q(50))
       IN  IF RLt(Q(60), d) THEN Q(60) ELSE d
  ELSE Q(0)

\* const COL_X = SVG_W / 2, with the SVG_W = 300 of this module
COL_X == 150

MARGIN_TOP == 50

COL_H == 300

\* const steps = 50
steps == 50

\* the samples i of the path the model keeps: the two ends of the column,
\* where the shape functions take the sine and cosine of whole quarter turns
Samples == {0, steps}

\* Math.sin(a) and Math.cos(a) for a = n quarter turns (n * Math.PI / 2),
\* taken as the exact values
SinQuarter(n) == CASE n % 4 = 0 -> 0 [] n % 4 = 1 -> 1 [] n % 4 = 2 -> 0 [] OTHER -> -1

CosQuarter(n) == CASE n % 4 = 0 -> 1 [] n % 4 = 1 -> 0 [] n % 4 = 2 -> -1 [] OTHER -> 0

\* the shape function of each boundary condition at sample i, t = i / steps;
\* Math.PI * t is 2t quarter turns
shapeOf(b, i) ==
  LET t == i \div steps
  IN  CASE b = "pinned-pinned" -> Q(SinQuarter(2 * t))
        [] b = "fixed-free"    -> Q(1 - CosQuarter(t))
        [] b = "fixed-fixed"   -> RMul(Rat(1, 2), Q(1 - CosQuarter(4 * t)))
        [] b = "fixed-pinned"  ->
             RSub(Q(SinQuarter(2 * t)), RMul(Rat(1, 2), Q(SinQuarter(4 * t))))

\* let xOffset = 0; if (maxDeflection > 0) { switch (bc) {...} }
xOffsetOf(b, md, i) == IF RLt(Q(0), md) THEN RMul(md, shapeOf(b, i)) ELSE Q(0)

\* generateColumnPath(): the point `${COL_X + xOffset},${y}` of sample i
generateColumnPath(b, md) ==
  [i \in Samples |->
     [x |-> RAdd(Q(COL_X), xOffsetOf(b, md, i)),
      y |-> RAdd(Q(MARGIN_TOP), RMul(Rat(i, steps), Q(COL_H)))]]

\* translate(${isBuckled && bc === 'fixed-free' ? maxDeflection : 0}, 0) of
\* the load arrow
arrowShiftOf(b, buckled, md) ==
  IF buckled /\ b = "fixed-free" THEN md ELSE Q(0)

\* what a render of the module computes
BucklingCalc(b, len, ld, e) ==
  LET pCr == pCrOf(b, len, e)
      md  == maxDeflectionOf(ld, pCr)
  IN  [pCr          |-> pCr,
       isBuckled    |-> isBuckledOf(ld, pCr),
       safetyFactor |-> RDiv(pCr, Q(ld)),
       maxDeflection |-> md,
       path         |-> generateColumnPath(b, md),
       arrowShift   |-> arrowShiftOf(b, isBuckledOf(ld, pCr), md)]

BucklingInit ==
  /\ bc = "pinned-pinned"
  /\ length = 5
  /\ load = 100
  /\ ei = 2000
  /\ bucklingOut = BucklingCalc("pinned-pinned", 5, 100, 2000)

\* onClick={() => setBc(key)}
SetBc ==
  \E b \in BoundaryType :
    /\ b # bc
    /\ bc' = b
    /\ bucklingOut' = BucklingCalc(b, length, load, ei)
    /\ UNCHANGED <<length, load, ei>>

\* <Slider label="载荷 (P)" ... onChange={setLoad} />
SetLoad ==
  \E v \in BucklingLoadValues :
    /\ v # load
    /\ load' = v
    /\ bucklingOut' = BucklingCalc(bc, length, v, ei)
    /\ UNCHANGED <<bc, length, ei>>

\* <Slider label="杆长 (L)" ... onChange={setLength} />
SetLength ==
  \E v \in LengthValues :
    /\ v # length
    /\ length' = v
    /\ bucklingOut' = BucklingCalc(bc, v, load, ei)
    /\ UNCHANGED <<bc, load, ei>>

\* <Slider label="抗弯刚度 (EI)" ... onChange={setEi} />
SetEi ==
  \E v \in EiValues :
    /\ v # ei
    /\ ei' = v
    /\ bucklingOut' = BucklingCalc(bc, length, load, v)
    /\ UNCHANGED <<bc, length, load>>

BucklingNext ==
  \/ SetBc
  \/ SetLoad
  \/ SetLength
  \/ SetEi

(***************************************************************************)
(* MohrModule                                                              *)
(*                                                                         *)
(* Math.sqrt is taken as the exact square root.  A value of the module is  *)
(* a triple <<a, b, D>> standing for a + b*sqrt(D), a, b and D rational,   *)
(* D >= 0 not the square of a rational unless b = 0, in which case D = 0.  *)
(* All the surds of one evaluation have the same D.                        *)
(***************************************************************************)
\* the rational q as a value
Surd(q) == <<q, Q(0), Q(0)>>

IsSquare(q) ==
  /\ q[1] >= 0
  /\ ISqrt(q[1]) * ISqrt(q[1]) = q[1]
  /\ ISqrt(q[2]) * ISqrt(q[2]) = q[2]

\* Math.sqrt(q), q rational and not negative
Sqrt(q) == IF IsSquare(q) THEN Surd(RSqrt(q)) ELSE <<Q(0), Q(1), q>>

\* x + y and x - y, for x and y over the same D
SAdd(x, y) ==
  LET b == RAdd(x[2], y[2])
      D == IF x[2] # Q(0) THEN x[3] ELSE y[3]
  IN  IF b = Q(0) THEN Surd(RAdd(x[1], y[1])) ELSE <<RAdd(x[1], y[1]), b, D>>

SNeg(x) == <<RNeg(x[1]), RNeg(x[2]), x[3]>>

SSub(x, y) == SAdd(x, SNeg(y))

\* x * x
SSq(x) ==
  LET a == RAdd(RSq(x[1]), RMul(RSq(x[2]), x[3]))
      b == RMul(Q(2), RMul(x[1], x[2]))
  IN  IF b = Q(0) THEN Surd(a) ELSE <<a, b, x[3]>>

\* 0 <= x
SNonNeg(x) ==
  LET a  == x[1]
      b  == x[2]
      bb == RMul(RSq(b), x[3])
  IN  IF RLe(Q(0), a) /\ RLe(Q(0), b) THEN TRUE
      ELSE IF RLt(a, Q(0)) /\ RLe(b, Q(0)) THEN FALSE
      ELSE IF RLe(Q(0), a) THEN RLe(bb, RSq(a))
      ELSE RLe(RSq(a), bb)

\* x <= y
SLe(x, y) == SNonNeg(SSub(y, x))

\* const center = (sx + sy) / 2
MohrCenter(x, y) == RDiv(RAdd(Q(x), Q(y)), Q(2))

\* the radius from the full stress difference instead of its half
MohrRadiusNoHalf(x, y, t) ==
  Sqrt(RAdd(RSq(RSub(Q(x), Q(y))), RSq(Q(t))))

\* const radius = Math.sqrt(Math.pow((sx - sy) / 2, 2) + Math.pow(txy, 2))
MohrRadius(x, y, t) ==
  Sqrt(RAdd(RSq(RDiv(RSub(Q(x), Q(y)), Q(2))), RSq(Q(t))))

\* what a render of the module computes
MohrCalc(x, y, t) ==
  LET center == MohrCenter(x, y)
      radius == MohrRadius(x, y, t)
  IN  [center   |-> center,
       radius   |-> radius,
       s1       |-> SAdd(Surd(center), radius),
       s2       |-> SSub(Surd(center), radius),
       maxShear |-> radius]

MohrInit ==
  /\ sx = 50
  /\ sy = 10
  /\ txy = 20
  /\ mohrOut = MohrCalc(50, 10, 20)

\* <Slider ... onChange={setSx} />
SetSx ==
  \E v \in SxValues :
    /\ v # sx
    /\ sx' = v
    /\ mohrOut' = MohrCalc(v, sy, txy)
    /\ UNCHANGED <<sy, txy>>

\* <Slider ... onChange={setSy} />
SetSy ==
  \E v \in SyValues :
    /\ v # sy
    /\ sy' = v
    /\ mohrOut' = MohrCalc(sx, v, txy)
    /\ UNCHANGED <<sx, txy>>

\* <Slider ... onChange={setTxy} />
SetTxy ==
  \E v \in TxyValues :
    /\ v # txy
    /\ txy' = v
    /\ mohrOut' = MohrCalc(sx, sy, v)
    /\ UNCHANGED <<sx, sy>>

MohrNext ==
  \/ SetSx
  \/ SetSy
  \/ SetTxy

(***************************************************************************)
(* SectionModule                                                           *)
(*                                                                         *)
(* Moments of inertia in mm^4 exceed the integers of the model checker, so *)
(* a number of this module is a pair <<r, e>> standing for r * 10^e, r a   *)
(* rational with neither numerator nor denominator divisible by 5 (this    *)
(* makes the pair unique); 0 is <<0, 0>>; a non-finite double is           *)
(* <<q, 0>> with q one of the non-finite rationals.  thrown is the         *)
(* exception the computation ends with; it has no throw statement.         *)
(***************************************************************************)
RECURSIVE XNorm(_, _)
XNorm(r, e) ==
  IF r[1] = 0 THEN <<Q(0), 0>>
  ELSE IF r[1] % 5 = 0 THEN XNorm(Rat(r[1] \div 5, 2 * r[2]), e + 1)
  ELSE IF r[2] % 5 = 0 THEN XNorm(Rat(2 * r[1], r[2] \div 5), e - 1)
  ELSE <<r, e>>

\* the integer n
XOf(n) == XNorm(Q(n), 0)

XIsFinite(a) == IsFinite(a[1])

XSgn(a) == Sgn(a[1][1])

XNeg(a) == <<RNeg(a[1]), a[2]>>

XMul(a, b) == XNorm(RMul(a[1], b[1]), a[2] + b[2])

XDiv(a, b) ==
  IF b[1][1] = 0 THEN <<Inf(XSgn(a)), 0>>
  ELSE XNorm(RDiv(a[1], b[1]), a[2] - b[2])

XAdd(a, b) ==
  IF a[1][1] = 0 THEN b
  ELSE IF b[1][1] = 0 THEN a
  ELSE LET e0 == IF a[2] < b[2] THEN a[2] ELSE b[2]
       IN  XNorm(RAdd(RMul(a[1], Q(10 ^ (a[2] - e0))),
                      RMul(b[1], Q(10 ^ (b[2] - e0)))), e0)

XSub(a, b) == XAdd(a, XNeg(b))

XLt(a, b) == XSgn(XSub(a, b)) < 0

\* Math.pow(a, 3)
XPow3(a) == XMul(a, XMul(a, a))

\* the moment of inertia about the other axis
RectIWeakAxis(w, h) == XDiv(XMul(XOf(h), XPow3(XOf(w))), XOf(12))

\* I = (width * Math.pow(height, 3)) / 12
RectI(w, h) == XDiv(XMul(XOf(w), XPow3(XOf(h))), XOf(12))

\* the I-beam with the subtraction the other way round
IBeamIReversed(w, h, f, t) ==
  LET I_outer == XDiv(XMul(XOf(w), XPow3(XOf(h))), XOf(12))
      I_inner == XDiv(XMul(XOf(w - t), XPow3(XOf(h - 2 * f))), XOf(12))
  IN  XSub(I_inner, I_outer)

\* I_outer, I_inner and I = I_outer - I_inner
IBeamI(w, h, f, t) ==
  LET I_outer == XDiv(XMul(XOf(w), XPow3(XOf(h))), XOf(12))
      I_inner == XDiv(XMul(XOf(w - t), XPow3(XOf(h - 2 * f))), XOf(12))
  IN  XSub(I_outer, I_inner)

\* what a render of the module computes
SectionCalc(ty, m, h, w, f, t) ==
  LET I     == IF ty = "rect" THEN RectI(w, h) ELSE IBeamI(w, h, f, t)
      yMax  == XDiv(XOf(h), XOf(2))
      M_Nmm == XMul(XOf(m), XOf(1000000))
  IN  [thrown   |-> "none",
       I        |-> I,
       yMax     |-> yMax,
       M_Nmm    |-> M_Nmm,
       sigmaMax |-> XDiv(XMul(M_Nmm, yMax), I)]

SectionInit ==
  /\ sectionType = "rect"
  /\ moment = 50
  /\ secHeight = 400
  /\ secWidth = 200
  /\ tf = 20
  /\ tw = 10
  /\ sectionOut = SectionCalc("rect", 50, 400, 200, 20, 10)

\* onClick={() => setSectionType('rect')}, ...('i-beam')
SetSectionType ==
  \E v \in {"rect", "i-beam"} :
    /\ v # sectionType
    /\ sectionType' = v
    /\ sectionOut' = SectionCalc(v, moment, secHeight, secWidth, tf, tw)
    /\ UNCHANGED <<moment, secHeight, secWidth, tf, tw>>

\* setHeight(v)
SetSecHeight(S) ==
  \E v \in S :
    /\ v # secHeight
    /\ secHeight' = v
    /\ sectionOut' = SectionCalc(sectionType, moment, v, secWidth, tf, tw)
    /\ UNCHANGED <<sectionType, moment, secWidth, tf, tw>>

\* setWidth(v)
SetSecWidth(S) ==
  \E v \in S :
    /\ v # secWidth
    /\ secWidth' = v
    /\ sectionOut' = SectionCalc(sectionType, moment, secHeight, v, tf, tw)
    /\ UNCHANGED <<sectionType, moment, secHeight, tf, tw>>

\* setTf(v); its slider is rendered for the I-beam only
SetTf(S) ==
  \E v \in S :
    /\ sectionType = "i-beam"
    /\ v # tf
    /\ tf' = v
    /\ sectionOut' = SectionCalc(sectionType, moment, secHeight, secWidth, v, tw)
    /\ UNCHANGED <<sectionType, moment, secHeight, secWidth, tw>>

\* setTw(v); its slider is rendered for the I-beam only
SetTw(S) ==
  \E v \in S :
    /\ sectionType = "i-beam"
    /\ v # tw
    /\ tw' = v
    /\ sectionOut' = SectionCalc(sectionType, moment, secHeight, secWidth, tf, v)
    /\ UNCHANGED <<sectionType, moment, secHeight, secWidth, tf>>

\* setMoment(v)
SetMoment(S) ==
  \E v \in S :
    /\ v # moment
    /\ moment' = v
    /\ sectionOut' = SectionCalc(sectionType, v, secHeight, secWidth, tf, tw)
    /\ UNCHANGED <<sectionType, secHeight, secWidth, tf, tw>>

\* the module as its sliders and buttons drive it
SectionNext ==
  \/ SetSectionType
  \/ SetSecHeight(SecHeightValues)
  \/ SetSecWidth(SecWidthValues)
  \/ SetTf(TfValues)
  \/ SetTw(TwValues)
  \/ SetMoment(MomentValues)

\* the computation driven with arguments the sliders cannot produce
SectionFnNext ==
  \/ SetSectionType
  \/ SetSecHeight(SecHeightValues)
  \/ SetSecWidth(SecWidthValues)
  \/ SetTf(TfInputs)
  \/ SetTw(TwInputs)
  \/ SetMoment(MomentInputs)

(***************************************************************************)
(* Wide numbers.  The steel area set by a preset is a fraction, and the    *)
(* products of the analysis below exceed the integers of the model         *)
(* checker.  A natural number is here the sequence of its digits to the    *)
(* base 1000, least significant first, the last one not 0 (0 is <<>>).  A  *)
(* wide number is <<s, n, d>>: the sign s and the naturals n and d of the  *)
(* fraction s*n/d, cancelled by small divisors only; d = 0 gives the       *)
(* non-finite doubles: <<1, 1, 0>> = +Infinity, <<-1, 1, 0>> = -Infinity,  *)
(* <<0, 0, 0>> = NaN.  Equal numbers may differ as triples: they are       *)
(* compared with BEq.                                                      *)
(*                                                                         *)
(* The operations that are built from other operations are evaluated by    *)
(* one recursive evaluator, Ev, which is given the name of the operation   *)
(* and its operands: NMul(a, b) is Ev(<<"NMul", a, b>>), which is          *)
(* NMulV(a, b), the operation on the values of the operands.  Ev is        *)
(* defined after the analysis of the concrete section, which it evaluates  *)
(* as well.                                                                *)
(***************************************************************************)
RECURSIVE Ev(_)

RECURSIVE NOf(_)
NOf(n) == IF n = 0 THEN <<>> ELSE <<n % 1000>> \o NOf(n \div 1000)

\* a without its leading zero digits
NTrim(a) ==
  LET nz == {i \in 1..Len(a) : a[i] # 0}
  IN  IF nz = {} THEN <<>>
      ELSE SubSeq(a, 1, CHOOSE i \in nz : \A j \in nz : j <= i)

RECURSIVE NAddC(_, _, _)
NAddC(a, b, carry) ==
  IF a = <<>> /\ b = <<>> THEN IF carry = 0 THEN <<>> ELSE <<carry>>
  ELSE LET t == (IF a = <<>> THEN 0 ELSE a[1])
                  + (IF b = <<>> THEN 0 ELSE b[1]) + carry
       IN  <<t % 1000>> \o NAddC(IF a = <<>> THEN a ELSE Tail(a),
                                 IF b = <<>> THEN b ELSE Tail(b),
                                 t \div 1000)

NAdd(a, b) == NAddC(a, b, 0)

\* a - b, for a >= b
RECURSIVE NSubB(_, _, _)
NSubB(a, b, borrow) ==
  IF a = <<>> THEN <<>>
  ELSE LET t == a[1] - (IF b = <<>> THEN 0 ELSE b[1]) - borrow
       IN  <<IF t < 0 THEN t + 1000 ELSE t>>
             \o NSubB(Tail(a), IF b = <<>> THEN b ELSE Tail(b),
                      IF t < 0 THEN 1 ELSE 0)

NSub(a, b) == NTrim(NSubB(a, b, 0))

\* -1, 0, 1 as a < b, a = b, a > b
NCmp(a, b) ==
  IF Len(a) # Len(b) THEN IF Len(a) < Len(b) THEN -1 ELSE 1
  ELSE LET df == {i \in 1..Len(a) : a[i] # b[i]}
       IN  IF df = {} THEN 0
           ELSE LET top == CHOOSE i \in df : \A j \in df : j <= i
                IN  IF a[top] < b[top] THEN -1 ELSE 1

\* a * m + carry, for a digit m
RECURSIVE NMulDigit(_, _, _)
NMulDigit(a, m, carry) ==
  IF a = <<>> THEN IF carry = 0 THEN <<>> ELSE <<carry>>
  ELSE LET t == a[1] * m + carry
       IN  <<t % 1000>> \o NMulDigit(Tail(a), m, t \div 1000)

NMul(a, b) == Ev(<<"NMul", a, b>>)

NMulV(a, b) ==
  IF a = <<>> \/ b = <<>> THEN <<>>
  ELSE NTrim(NAdd(NMulDigit(a, b[1], 0), <<0>> \o NMul(a, Tail(b))))

\* the digits i.. of a, as a number, modulo m; m < 2000000
RECURSIVE NRemFrom(_, _, _)
NRemFrom(a, m, i) ==
  IF i > Len(a) THEN 0 ELSE (NRemFrom(a, m, i + 1) * 1000 + a[i]) % m

\* a \div m, for 0 < m < 2000000
NDivDigit(a, m) ==
  NTrim([i \in 1..Len(a) |-> (NRemFrom(a, m, i + 1) * 1000 + a[i]) \div m])

\* a divided by every member of ms, each of which divides what is left
RECURSIVE NDivAll(_, _)
NDivAll(a, ms) ==
  IF ms = {} THEN a
  ELSE LET m == CHOOSE w \in ms : TRUE
       IN  NDivAll(NDivDigit(a, m), ms \ {m})

\* the primes a fraction is cancelled by; the value of a fraction does not
\* depend on them
SmallDivisors == {2, 3, 5, 7, 11, 13, 17, 19, 23, 29, 31, 37, 41, 43, 47, 53, 59}

RECURSIVE PowerOf(_, _)
PowerOf(p, e) == IF e = 0 THEN 1 ELSE p * PowerOf(p, e - 1)

\* the largest e with p^e < 2000000, for p among SmallDivisors
TopExponent(p) ==
  CASE p = 2 -> 20 [] p = 3 -> 13 [] p = 5 -> 9 [] p = 7 -> 7 [] p = 11 -> 6
    [] p \in {13, 17} -> 5
    [] p \in {19, 23, 29, 31, 37} -> 4
    [] OTHER -> 3

\* the powers of p that NRemFrom takes
PowersOf(p) == {PowerOf(p, e) : e \in 1..TopExponent(p)}

\* the largest power of p among PowersOf(p) that divides n and d
CommonPower(n, d, p) ==
  LET ms == {m \in PowersOf(p) : NRemFrom(n, m, 1) = 0 /\ NRemFrom(d, m, 1) = 0}
  IN  CHOOSE m \in ms : \A w \in ms : w <= m

NCancel(n, d) == Ev(<<"NCancel", n, d>>)

\* n / d with the common divisors among SmallDivisors cancelled
NCancelV(n, d) ==
  LET ps == {p \in SmallDivisors :
               NRemFrom(n, p, 1) = 0 /\ NRemFrom(d, p, 1) = 0}
      ms == {CommonPower(n, d, p) : p \in ps}
  IN  IF d = <<1>> \/ ps = {} THEN <<n, d>>
      ELSE NCancel(NDivAll(n, ms), NDivAll(d, ms))

BNaN == <<0, <<>>, <<>>>>

BInf(s) == IF s = 0 THEN BNaN ELSE <<s, <<1>>, <<>>>>

B0 == <<0, <<>>, <<1>>>>

BMk(s, n, d) == Ev(<<"BMk", s, n, d>>)

BMkV(s, n, d) ==
  IF d = <<>> THEN IF n = <<>> THEN BNaN ELSE BInf(s)
  ELSE IF n = <<>> \/ s = 0 THEN B0
  ELSE LET nd == NCancel(n, d)
       IN  <<s, nd[1], nd[2]>>

\* the number q = <<n, d>>
BOf(q) == BMk(Sgn(q[1]), NOf(Abs(q[1])), NOf(q[2]))

BIsFinite(a) == a[3] # <<>>

BIsNaN(a) == a = BNaN

BSgn(a) == a[1]

BNeg(a) == <<-a[1], a[2], a[3]>>

BMul(a, b) == Ev(<<"BMul", a, b>>)

BMulV(a, b) ==
  IF BIsFinite(a) /\ BIsFinite(b)
  THEN BMk(a[1] * b[1], NMul(a[2], b[2]), NMul(a[3], b[3]))
  ELSE BInf(a[1] * b[1])

BInv(a) ==
  IF BIsNaN(a) THEN BNaN
  ELSE IF ~BIsFinite(a) THEN B0
  ELSE IF a[1] = 0 THEN BInf(1) ELSE <<a[1], a[3], a[2]>>

\* a / b; a / 0 is an infinity with the sign of a, 0 / 0 is NaN
BDiv(a, b) == BMul(a, BInv(b))

BAdd(a, b) == Ev(<<"BAdd", a, b>>)

BAddV(a, b) ==
  IF BIsFinite(a) /\ BIsFinite(b)
  THEN LET x == NMul(a[2], b[3])
            y == NMul(b[2], a[3])
            d == NMul(a[3], b[3])
       IN  IF a[1] = 0 THEN b
           ELSE IF b[1] = 0 THEN a
           ELSE IF a[1] = b[1] THEN BMk(a[1], NAdd(x, y), d)
           ELSE IF NCmp(x, y) = 0 THEN B0
           ELSE IF NCmp(x, y) > 0 THEN BMk(a[1], NSub(x, y), d)
           ELSE BMk(b[1], NSub(y, x), d)
  ELSE IF BIsNaN(a) \/ BIsNaN(b) THEN BNaN
  ELSE IF BIsFinite(a) THEN b
  ELSE IF BIsFinite(b) THEN a
  ELSE IF a = b THEN a ELSE BNaN

BSub(a, b) == BAdd(a, BNeg(b))

BLt(a, b) == ~BIsNaN(a) /\ ~BIsNaN(b) /\ a # b /\ BSgn(BSub(a, b)) < 0

BEq(a, b) ==
  /\ ~BIsNaN(a)
  /\ ~BIsNaN(b)
  /\ IF BIsFinite(a) /\ BIsFinite(b) THEN BSgn(BSub(a, b)) = 0 ELSE a = b

(***************************************************************************)
(* Math.sqrt is taken as the exact square root.  A value of the analysis   *)
(* is a triple <<a, b, D>> of wide numbers standing for a + b*sqrt(D),     *)
(* D > 0 unless b = 0; the values of one evaluation that have b # 0 have   *)
(* the same D.  Equal values may differ as triples: TEq compares them.     *)
(***************************************************************************)
TOf(a) == <<a, B0, B0>>

\* the number q = <<n, d>>
TQ(q) == TOf(BOf(q))

TIsRat(x) == BSgn(x[2]) = 0

TMk(a, b, D) == IF BSgn(b) = 0 /\ ~BIsNaN(b) THEN TOf(a) ELSE <<a, b, D>>

TRad(x, y) == IF TIsRat(x) THEN y[3] ELSE x[3]

TIsFinite(x) == BIsFinite(x[1]) /\ BIsFinite(x[2])

TIsNaN(x) == BIsNaN(x[1]) \/ BIsNaN(x[2])

TNeg(x) == <<BNeg(x[1]), BNeg(x[2]), x[3]>>

TAdd(x, y) == Ev(<<"TAdd", x, y>>)

TAddV(x, y) == TMk(BAdd(x[1], y[1]), BAdd(x[2], y[2]), TRad(x, y))

TSub(x, y) == TAdd(x, TNeg(y))

TMul(x, y) == Ev(<<"TMul", x, y>>)

TMulV(x, y) ==
  IF TIsRat(x) /\ TIsRat(y) THEN TOf(BMul(x[1], y[1]))
  ELSE LET D == TRad(x, y)
       IN  TMk(BAdd(BMul(x[1], y[1]), BMul(BMul(x[2], y[2]), D)),
               BAdd(BMul(x[1], y[2]), BMul(x[2], y[1])), D)

TDiv(x, y) == Ev(<<"TDiv", x, y>>)

\* x / y: by the conjugate of y when y is not rational
TDivV(x, y) ==
  IF TIsRat(y)
  THEN TMk(BDiv(x[1], y[1]),
           IF TIsRat(x) THEN B0 ELSE BDiv(x[2], y[1]), x[3])
  ELSE LET norm == BSub(BMul(y[1], y[1]), BMul(BMul(y[2], y[2]), y[3]))
            num  == TMul(x, <<y[1], BNeg(y[2]), y[3]>>)
       IN  TMk(BDiv(num[1], norm), BDiv(num[2], norm), y[3])

TSgn(x) == Ev(<<"TSgn", x>>)

\* the sign of a + b*sqrt(D); 0 for NaN
TSgnV(x) ==
  LET sa == BSgn(x[1])
      sb == BSgn(x[2])
  IN  IF TIsNaN(x) THEN 0
      ELSE IF sb = 0 THEN sa
      ELSE IF sa = 0 THEN sb
      ELSE IF sa = sb THEN sa
      ELSE sa * BSgn(BSub(BMul(x[1], x[1]), BMul(BMul(x[2], x[2]), x[3])))

TLt(x, y) == Ev(<<"TLt", x, y>>)

TLtV(x, y) == ~TIsNaN(x) /\ ~TIsNaN(y) /\ x # y /\ TSgn(TSub(x, y)) < 0

TEq(x, y) == Ev(<<"TEq", x, y>>)

TEqV(x, y) ==
  /\ ~TIsNaN(x)
  /\ ~TIsNaN(y)
  /\ IF TIsFinite(x) /\ TIsFinite(y) THEN TSgn(TSub(x, y)) = 0 ELSE x = y

TLe(x, y) == Ev(<<"TLe", x, y>>)

TLeV(x, y) == TLt(x, y) \/ TEq(x, y)

\* Math.sqrt(a), a a wide number and not negative
TSqrt(a) == IF BSgn(a) = 0 THEN TOf(a) ELSE <<B0, BOf(Q(1)), a>>

TMin(x, y) == Ev(<<"TMin", x, y>>)

\* Math.min(x, y)
TMinV(x, y) ==
  IF TIsNaN(x) \/ TIsNaN(y) THEN TOf(BNaN) ELSE IF TLt(x, y) THEN x ELSE y

(***************************************************************************)
(* ConcreteModule                                                          *)
(*                                                                         *)
(* The analysis of the section as every render computes it.  The decimal   *)
(* constants 0.0033, 0.002 and 0.95 are taken as exact.                    *)
(***************************************************************************)
\* const as = 40 (concrete cover)
cover == 40

Es == 200000

alpha1 == Q(1)

eps_cu == Rat(33, 10000)

\* const h0 = h - as
h0Of(hh) == Q(hh - cover)

\* const eps_y = fy / Es
eps_yOf(y) == RDiv(Q(y), Q(Es))

\* const xi_b = eps_cu / (eps_cu + eps_y)
xi_bOf(y) == RDiv(eps_cu, RAdd(eps_cu, eps_yOf(y)))

\* const As_bal = (alpha1 * fc * b * (xi_b * h0)) / fy
As_balOf(f, y, bb, hh) ==
  RDiv(RMul(RMul(RMul(alpha1, Q(f)), Q(bb)), RMul(xi_bOf(y), h0Of(hh))), Q(y))

\* const As_min = 0.002 * b * h
As_minOf(bb, hh) == RMul(RMul(Rat(2, 1000), Q(bb)), Q(hh))

\* the mode with the balanced area tested before the minimum area
modeOfBalancedFirst(a, As_min, As_bal) ==
  IF RLt(As_bal, a) THEN "over"
  ELSE IF RLt(a, As_min) THEN "min"
  ELSE IF RLt(RMul(As_bal, Rat(95, 100)), a) THEN "balanced" ELSE "under"

\* the failure mode: if (As < As_min) ... else if (As <= As_bal) ... else
modeOf(a, As_min, As_bal) ==
  IF RLt(a, As_min) THEN "min"
  ELSE IF RLe(a, As_bal)
  THEN IF RLt(RMul(As_bal, Rat(95, 100)), a) THEN "balanced" ELSE "under"
  ELSE "over"

\* let x = (fy * As) / (alpha1 * fc * b)
xOf(f, y, bb, a) ==
  TDiv(TMul(TQ(Q(y)), TQ(a)), TMul(TMul(TQ(alpha1), TQ(Q(f))), TQ(Q(bb))))

\* eps_s = eps_cu * (h0 - x) / x
eps_sOf(hh, x) == TDiv(TMul(TQ(eps_cu), TSub(TQ(h0Of(hh)), x)), x)

\* the over-reinforced branch taking the other root of the quadratic
xOverOfOtherRoot(f, bb, hh, a) ==
  LET A_quad == TMul(TQ(alpha1), TMul(TQ(Q(f)), TQ(Q(bb))))
      B_quad == TMul(TMul(TQ(Q(Es)), TQ(eps_cu)), TQ(a))
      C_quad == TMul(TMul(TMul(TNeg(TQ(Q(Es))), TQ(eps_cu)), TQ(a)),
                     TQ(h0Of(hh)))
      disc   == TSub(TMul(B_quad, B_quad),
                     TMul(TMul(TQ(Q(4)), A_quad), C_quad))
  IN  TDiv(TSub(TNeg(B_quad), TSqrt(disc[1])), TMul(TQ(Q(2)), A_quad))

\* the over-reinforced branch: A_quad, B_quad, C_quad and the root x
xOverOf(f, bb, hh, a) ==
  LET A_quad == TMul(TQ(alpha1), TMul(TQ(Q(f)), TQ(Q(bb))))
      B_quad == TMul(TMul(TQ(Q(Es)), TQ(eps_cu)), TQ(a))
      C_quad == TMul(TMul(TMul(TNeg(TQ(Q(Es))), TQ(eps_cu)), TQ(a)),
                     TQ(h0Of(hh)))
      disc   == TSub(TMul(B_quad, B_quad),
                     TMul(TMul(TQ(Q(4)), A_quad), C_quad))
  IN  TDiv(TAdd(TNeg(B_quad), TSqrt(disc[1])), TMul(TQ(Q(2)), A_quad))

\* the moment with the lever arm h0 in place of h0 - x/2
MnOfFullArm(f, bb, hh, x) ==
  TDiv(TMul(TMul(TMul(TMul(TQ(alpha1), TQ(Q(f))), TQ(Q(bb))), x),
            TQ(h0Of(hh))),
       TQ(Q(1000000)))

\* const Mn = alpha1 * fc * b * x * (h0 - x/2) / 1000000
MnOf(f, bb, hh, x) ==
  TDiv(TMul(TMul(TMul(TMul(TQ(alpha1), TQ(Q(f))), TQ(Q(bb))), x),
            TSub(TQ(h0Of(hh)), TDiv(x, TQ(Q(2))))),
       TQ(Q(1000000)))

\* what a render of the module computes
ConcreteCalc(f, y, bb, hh, a) ==
  LET As_bal == As_balOf(f, y, bb, hh)
      As_min == As_minOf(bb, hh)
      mode   == modeOf(a, As_min, As_bal)
      x      == IF mode = "over" THEN xOverOf(f, bb, hh, a)
                ELSE xOf(f, y, bb, a)
      eps_s  == eps_sOf(hh, x)
  IN    [h0      |-> h0Of(hh),
         xi_b    |-> xi_bOf(y),
         As_bal  |-> As_bal,
         As_min  |-> As_min,
         mode    |-> mode,
         x       |-> x,
         xi      |-> TDiv(x, TQ(h0Of(hh))),
         eps_s   |-> eps_s,
         sigma_s |-> CASE mode = "min"  ->
                            TMin(TMul(eps_s, TQ(Q(Es))), TQ(Q(y)))
                       [] mode = "over" -> TMul(eps_s, TQ(Q(Es)))
                       [] OTHER         -> TQ(Q(y)),
         Mn      |-> MnOf(f, bb, hh, x)]

\* the operation e[1] on the operands e[2], e[3], ...
Ev(e) ==
  CASE e[1] = "NMul"    -> NMulV(e[2], e[3])
    [] e[1] = "NCancel" -> NCancelV(e[2], e[3])
    [] e[1] = "BMk"     -> BMkV(e[2], e[3], e[4])
    [] e[1] = "BMul"    -> BMulV(e[2], e[3])
    [] e[1] = "BAdd"    -> BAddV(e[2], e[3])
    [] e[1] = "TAdd"    -> TAddV(e[2], e[3])
    [] e[1] = "TMul"    -> TMulV(e[2], e[3])
    [] e[1] = "TDiv"    -> TDivV(e[2], e[3])
    [] e[1] = "TSgn"    -> TSgnV(e[2])
    [] e[1] = "TLt"     -> TLtV(e[2], e[3])
    [] e[1] = "TEq"     -> TEqV(e[2], e[3])
    [] e[1] = "TLe"     -> TLeV(e[2], e[3])
    [] e[1] = "TMin"    -> TMinV(e[2], e[3])
    [] e[1] = "ConcreteCalc" -> ConcreteCalc(e[2], e[3], e[4], e[5], e[6])

\* a render of the module with the given material, section and steel area
ConcreteRender(f, y, bb, hh, a) == Ev(<<"ConcreteCalc", f, y, bb, hh, a>>)

ConcreteInit ==
  /\ fc = 30
  /\ fy = 400
  /\ rcB = 250
  /\ rcH = 500
  /\ As = Q(1000)
  /\ rcOut = ConcreteRender(30, 400, 250, 500, Q(1000))

\* setAs(v), v a number
SetAsTo(v) ==
  /\ v # As
  /\ As' = v
  /\ rcOut' = ConcreteRender(fc, fy, rcB, rcH, v)
  /\ UNCHANGED <<fc, fy, rcB, rcH>>

\* <button onClick={() => setAs(As_bal * 0.5)}>
PresetUnder == SetAsTo(RMul(rcOut.As_bal, Rat(1, 2)))

\* <button onClick={() => setAs(As_bal)}>
PresetBalanced == SetAsTo(rcOut.As_bal)

\* the third preset setting the balanced area itself
PresetOverAtBalance == SetAsTo(rcOut.As_bal)

\* <button onClick={() => setAs(As_bal * 1.5)}>
PresetOver == SetAsTo(RMul(rcOut.As_bal, Rat(3, 2)))

\* <Slider label="配筋面积 (As)" ... onChange={setAs} />
SetAs(S) == \E v \in S : SetAsTo(Q(v))

\* <Slider label="混凝土强度 (fc)" ... onChange={setFc} />
SetFc(S) ==
  \E v \in S :
    /\ v # fc
    /\ fc' = v
    /\ rcOut' = ConcreteRender(v, fy, rcB, rcH, As)
    /\ UNCHANGED <<fy, rcB, rcH, As>>

\* setFy(v); no control calls it
SetFy(S) ==
  \E v \in S :
    /\ v # fy
    /\ fy' = v
    /\ rcOut' = ConcreteRender(fc, v, rcB, rcH, As)
    /\ UNCHANGED <<fc, rcB, rcH, As>>

\* setB(v); no control calls it
SetRcB(S) ==
  \E v \in S :
    /\ v # rcB
    /\ rcB' = v
    /\ rcOut' = ConcreteRender(fc, fy, v, rcH, As)
    /\ UNCHANGED <<fc, fy, rcH, As>>

\* setH(v); no control calls it
SetRcH(S) ==
  \E v \in S :
    /\ v # rcH
    /\ rcH' = v
    /\ rcOut' = ConcreteRender(fc, fy, rcB, v, As)
    /\ UNCHANGED <<fc, fy, rcB, As>>

\* the module as its buttons and sliders drive it
ConcreteNext ==
  \/ PresetUnder
  \/ PresetBalanced
  \/ PresetOver
  \/ SetAs(AsValues)
  \/ SetFc(FcValues)

\* the computation driven with arguments the controls cannot produce
ConcreteFnNext ==
  \/ PresetUnder
  \/ PresetBalanced
  \/ PresetOver
  \/ SetAs(AsInputs)
  \/ SetFc(FcInputs)
  \/ SetFy(FyInputs)
  \/ SetRcB(RcBInputs)
  \/ SetRcH(RcHInputs)

(***************************************************************************)
(* App                                                                     *)
(*                                                                         *)
(* renderModule() mounts the module of activeModule and no other.  A       *)
(* module that is not mounted has no state: its variables hold the values  *)
(* its next mount creates.  The queue of animation frames is the           *)
(* browser's and outlives the module.                                      *)
(***************************************************************************)
\* the members of ModuleType that have a navigation button
ModuleType ==
  {"BEAM", "TRUSS", "FRAME", "BUCKLING", "SECTION", "CONCRETE", "VIBRATION",
   "MOHR"}

\* switch (activeModule) {...}: the component rendered
renderModule(a) ==
  CASE a = "BEAM"      -> "BeamModule"
    [] a = "TRUSS"     -> "TrussModule"
    [] a = "FRAME"     -> "FrameModule"
    [] a = "VIBRATION" -> "VibrationModule"
    [] a = "MOHR"      -> "MohrModule"
    [] a = "BUCKLING"  -> "BucklingModule"
    [] a = "SECTION"   -> "SectionModule"
    [] a = "CONCRETE"  -> "ConcreteModule"
    [] OTHER           -> "BeamModule"

\* a VibrationModule as React creates or discards it: the useState and
\* useRef values of a new mount
VibFresh ==
  /\ mass' = 5
  /\ k' = 50
  /\ c' = Rat(1, 1)
  /\ fMag' = 0
  /\ fFreq' = Rat(1, 1)
  /\ isPlaying' = FALSE
  /\ timeRef' = Q(0)
  /\ posRef' = FP(100)
  /\ velRef' = 0
  /\ requestRef' = 0
  /\ displayPos' = FP(100)
  /\ forceVal' = 0
  /\ ticks' = 0

\* a navigation that unmounts the module without running its effect cleanup
SetActiveModuleNoCleanup(m) ==
  /\ m # activeModule
  /\ activeModule' = m
  /\ VibFresh
  /\ frames' = frames
  /\ lastOp' = IF renderModule(activeModule) = "VibrationModule" /\ isPlaying
                THEN "leave-running" ELSE "nav"
  /\ UNCHANGED <<beamVars, trussVars, frameVars, bucklingVars, mohrVars,
                 sectionVars, concreteVars>>

\* onClick={() => setActiveModule(item.id)}: the module shown is unmounted,
\* which runs the cleanup of its effect, and the module of m is mounted
SetActiveModule(m) ==
  /\ m # activeModule
  /\ activeModule' = m
  /\ VibFresh
  /\ frames' = IF renderModule(activeModule) = "VibrationModule"
                THEN EffectCleanup(frames, requestRef) ELSE frames
  /\ lastOp' = IF renderModule(activeModule) = "VibrationModule" /\ isPlaying
                THEN "leave-running" ELSE "nav"
  /\ UNCHANGED <<beamVars, trussVars, frameVars, bucklingVars, mohrVars,
                 sectionVars, concreteVars>>

\* the controls of the VibrationModule
VibControls ==
  \/ Start
  \/ Pause
  \/ Reset
  \/ SetMass
  \/ SetK
  \/ SetC
  \/ SetFFreq

(***************************************************************************)
(* Specifications.  Every module starts as it is mounted; a specification  *)
(* drives one module, the App showing it, and leaves the others as they    *)
(* are.                                                                    *)
(***************************************************************************)
ModulesInit == VibInit /\ BeamInit /\ TrussInit /\ FrameInit /\ BucklingInit /\ MohrInit /\ SectionInit /\ ConcreteInit

\* the App as constructed: useState<ModuleType>(ModuleType.BEAM)
Init == activeModule = "BEAM" /\ ModulesInit

\* the App after the navigation to module m
Shows(m) == activeModule = m /\ ModulesInit

\* VibrationModule
Next == VibNext /\ UNCHANGED <<beamVars, trussVars, frameVars, bucklingVars, mohrVars, sectionVars, concreteVars, appVars>>

Spec == Shows("VIBRATION") /\ [][Next]_vars

\* stepPhysics exercised for every forcing magnitude of FMagInputs
InitForcing ==
  /\ activeModule = "VIBRATION"
  /\ fMag \in FMagInputs
  /\ mass = 5
  /\ k = 50
  /\ c = Rat(1, 1)
  /\ fFreq = Rat(1, 1)
  /\ isPlaying = FALSE
  /\ timeRef = Q(0)
  /\ posRef = FP(100)
  /\ velRef = 0
  /\ requestRef = 0
  /\ displayPos = FP(100)
  /\ forceVal = 0
  /\ frames = {}
  /\ ticks = 0
  /\ lastOp = "init"
  /\ BeamInit
  /\ TrussInit
  /\ FrameInit
  /\ BucklingInit
  /\ MohrInit
  /\ SectionInit
  /\ ConcreteInit

SpecForcing == InitForcing /\ [][Next]_vars

\* BeamModule
NextBeam == BeamNext /\ UNCHANGED <<vibVars, trussVars, frameVars, bucklingVars, mohrVars, sectionVars, concreteVars, appVars>>

SpecBeam == Init /\ [][NextBeam]_vars

\* the beam computation as a function of arbitrary arguments
NextBeamFn == BeamFnNext /\ UNCHANGED <<vibVars, trussVars, frameVars, bucklingVars, mohrVars, sectionVars, concreteVars, appVars>>

SpecBeamFn == Init /\ [][NextBeamFn]_vars

\* TrussModule
NextTruss == TrussNext /\ UNCHANGED <<vibVars, beamVars, frameVars, bucklingVars, mohrVars, sectionVars, concreteVars, appVars>>

SpecTruss == Shows("TRUSS") /\ [][NextTruss]_vars

\* FrameModule
NextFrame == FrameNext /\ UNCHANGED <<vibVars, beamVars, trussVars, bucklingVars, mohrVars, sectionVars, concreteVars, appVars>>

SpecFrame == Shows("FRAME") /\ [][NextFrame]_vars

\* BucklingModule
NextBuckling ==
  BucklingNext /\ UNCHANGED <<vibVars, beamVars, trussVars, frameVars, mohrVars, sectionVars, concreteVars, appVars>>

SpecBuckling == Shows("BUCKLING") /\ [][NextBuckling]_vars

\* MohrModule
NextMohr ==
  MohrNext /\ UNCHANGED <<vibVars, beamVars, trussVars, frameVars, bucklingVars, sectionVars, concreteVars, appVars>>

SpecMohr == Shows("MOHR") /\ [][NextMohr]_vars

\* SectionModule
NextSection ==
  SectionNext /\ UNCHANGED <<vibVars, beamVars, trussVars, frameVars, bucklingVars, mohrVars, concreteVars, appVars>>

SpecSection == Shows("SECTION") /\ [][NextSection]_vars

\* the section computation as a function of arbitrary arguments
NextSectionFn ==
  SectionFnNext /\ UNCHANGED <<vibVars, beamVars, trussVars, frameVars, bucklingVars, mohrVars, concreteVars, appVars>>

SpecSectionFn == Shows("SECTION") /\ [][NextSectionFn]_vars

\* ConcreteModule
NextConcrete ==
  ConcreteNext /\ UNCHANGED <<vibVars, beamVars, trussVars, frameVars, bucklingVars, mohrVars, sectionVars, appVars>>

SpecConcrete == Shows("CONCRETE") /\ [][NextConcrete]_vars

\* the concrete computation as a function of arbitrary arguments
NextConcreteFn ==
  ConcreteFnNext /\ UNCHANGED <<vibVars, beamVars, trussVars, frameVars, bucklingVars, mohrVars, sectionVars, appVars>>

SpecConcreteFn == Shows("CONCRETE") /\ [][NextConcreteFn]_vars

\* the App navigated between its modules, the VibrationModule driven while
\* it is shown; a queued frame callback runs whatever is shown
NextApp ==
  \/ \E m \in ModuleType : SetActiveModule(m)
  \/ /\ renderModule(activeModule) = "VibrationModule"
     /\ VibControls
     /\ UNCHANGED <<beamVars, trussVars, frameVars, bucklingVars, mohrVars,
                    sectionVars, concreteVars, appVars>>
  \/ /\ Tick
     /\ UNCHANGED <<beamVars, trussVars, frameVars, bucklingVars, mohrVars,
                    sectionVars, concreteVars, appVars>>

SpecApp == Init /\ [][NextApp]_vars

(***************************************************************************)
(* VibrationSimulator claims                                               *)
(***************************************************************************)
\* the oscillator state (time, displacement, velocity)
Osc == <<timeRef, posRef, velRef>>

OscInitial == <<Q(0), FP(100), 0>>

\* C1: whatever the state reset is applied in, it leaves the simulator
\* stopped with displacement 100, velocity 0, time 0, displayed displacement
\* 100 and displayed force 0; a second reset changes nothing.
C1_ResetState ==
  /\ [](lastOp = "reset" =>
          /\ ~isPlaying
          /\ Osc = OscInitial
          /\ displayPos = FP(100)
          /\ forceVal = 0)
  /\ [][(lastOp = "reset" /\ lastOp' = "reset") => vibVars' = vibVars]_vars

\* a reset issued while running, after ticks and a parameter change
C1_Witness ==
  /\ lastOp = "reset"
  /\ mass # 5
  /\ requestRef = 2

\* C2: the initial state is stopped with (0, 100, 0); start goes from
\* stopped to running and pause from running to stopped, and neither changes
\* (time, displacement, velocity).
C2_StartPause ==
  /\ [](lastOp = "init" => (~isPlaying /\ Osc = OscInitial))
  /\ [][/\ lastOp' = "start" => (~isPlaying /\ isPlaying' /\ Osc' = Osc)
        /\ lastOp' = "pause" => (isPlaying /\ ~isPlaying' /\ Osc' = Osc)]_vars

\* a start that resumes a paused run
C2_Witness ==
  /\ lastOp = "start"
  /\ isPlaying
  /\ ticks = 2
  /\ Osc # OscInitial

\* C3: (time, displacement, velocity) changes only in a tick taken while
\* running or in a reset, and no tick is taken while stopped, so the state
\* left by pause or reset is the state the next start finds.
C3_OnlyTickOrReset ==
  [][/\ Osc' # Osc =>
          \/ (lastOp' = "tick" /\ isPlaying)
          \/ (lastOp' = "reset" /\ Osc' = OscInitial)
     /\ ~isPlaying => lastOp' # "tick"]_vars

\* stopped by a pause that was issued while a frame was pending
C3_Witness ==
  /\ lastOp = "pause"
  /\ requestRef # 0
  /\ ticks > 0
  /\ ~isPlaying

\* C4: a tick computes a = (Fext - k x - c v)/m from the values before the
\* tick, then v' = v + a dt, x' = x + v' dt with the updated velocity and
\* t' = t + dt, dt = 0.016; time grows strictly in a tick and is ticks * dt.
C4_TickScheme ==
  /\ [](timeRef = RMul(Q(ticks), Rat(16, 1000)))
  /\ [][lastOp' = "tick" =>
          LET a == FDivI(forceVal' - k * posRef - FMulR(velRef, c), mass)
          IN  /\ velRef' = velRef + FMulR(a, Rat(16, 1000))
              /\ posRef' = posRef + FMulR(velRef', Rat(16, 1000))
              /\ timeRef' = RAdd(timeRef, Rat(16, 1000))
              /\ RLt(timeRef, timeRef')]_vars

\* a second tick, taken with a velocity and an external force other than 0
C4_Witness ==
  /\ lastOp = "tick"
  /\ ticks >= 2
  /\ velRef # 0
  /\ forceVal # 0

LoadX == Rat(loadPos * (SVG_W - 2 * MARGIN_X), 100)

\* the largest value of a field
IsPeakOf(v, field) == \A n \in 1..Len(field) : RLe(field[n].y, v)

\* C6: simply supported beam with a point load: Rb = P a / L, Ra = P - Rb,
\* Ra + Rb = P; the shear is Ra left of the load and -Rb right of it; the
\* moment is 0 at both supports and has its peak P a b / L at the load, which
\* is the reported peak moment.
C6_SimplePoint ==
  (beamType = "simple" /\ loadType = "point") =>
    LET o == beamOut
    IN  /\ o.rb = Rat(loadMag * loadPos * beamLength, 100 * beamLength)
        /\ o.ra = Rat(loadMag * (100 - loadPos), 100)
        /\ RAdd(o.ra, o.rb) = Q(loadMag)
        /\ o.sfdPoints = <<Pt(Q(0), o.ra), Pt(LoadX, o.ra),
                           Pt(LoadX, RNeg(o.rb)), Pt(DRAW_W, RNeg(o.rb))>>
        /\ Len(o.bmdPoints) = 3
        /\ o.bmdPoints[1] = Pt(Q(0), Q(0))
        /\ o.bmdPoints[3] = Pt(DRAW_W, Q(0))
        /\ o.bmdPoints[2] =
             Pt(LoadX, Rat(loadMag * loadPos * (100 - loadPos) * beamLength,
                           10000))
        /\ o.maxM = o.bmdPoints[2].y
        /\ IsPeakOf(o.maxM, o.bmdPoints)

\* a point load off midspan on a beam of another length than the initial one
C6_Witness ==
  /\ beamType = "simple"
  /\ loadType = "point"
  /\ loadPos = 70
  /\ beamLength = 20
  /\ RLt(beamOut.ra, beamOut.rb)

\* C7: simply supported beam with a uniform load: Ra = Rb = P L / 2; the
\* moment field has 101 equally spaced samples, sample i being the moment at
\* i L / 100; it is 0 at both ends and largest at sample 50 (midspan), whose
\* value is the reported peak P L^2 / 8; the shear runs from Ra to -Rb.
C7_SimpleUdl ==
  (beamType = "simple" /\ loadType = "udl") =>
    LET o == beamOut
        w == SVG_W - 2 * MARGIN_X
    IN  /\ o.ra = Rat(loadMag * beamLength, 2)
        /\ o.rb = o.ra
        /\ o.sfdPoints = <<Pt(Q(0), o.ra), Pt(DRAW_W, RNeg(o.rb))>>
        /\ Len(o.bmdPoints) = 101
        /\ \A i \in 0..100 :
             /\ o.bmdPoints[i + 1].x = Rat(i * w, 100)
             /\ o.bmdPoints[i + 1].y =
                  Rat(loadMag * beamLength * beamLength * i * (100 - i), 20000)
             /\ i # 50 => RLt(o.bmdPoints[i + 1].y, o.bmdPoints[51].y)
        /\ o.bmdPoints[1].y = Q(0)
        /\ o.bmdPoints[101].y = Q(0)
        /\ o.bmdPoints[51].y = o.maxM
        /\ o.maxM = Rat(loadMag * beamLength * beamLength, 8)

\* a uniform load on a beam of another length and load than the initial ones
C7_Witness ==
  /\ beamType = "simple"
  /\ loadType = "udl"
  /\ beamLength = 5
  /\ loadMag = 100
  /\ Len(beamOut.bmdPoints) = 101

\* C8: cantilever fixed at position 0.  Point load: Ra = P, Ma = -P a, shear
\* P up to the load then 0, moment Ma at the fixed end and 0 from the load
\* on.  Uniform load: Ra = P L, Ma = -P L^2 / 2, M(x) = -P (L - x)^2 / 2,
\* shear from P L to 0, moment 0 at the free end.  In both the moment at the
\* fixed end is Ma, the field is nowhere positive and the reported peak is
\* |Ma|.
C8_Cantilever ==
  (beamType = "cantilever") =>
    LET o == beamOut
        P == Q(loadMag)
    IN  /\ o.bmdPoints[1] = Pt(Q(0), o.ma)
        /\ \A n \in 1..Len(o.bmdPoints) : RLe(o.bmdPoints[n].y, Q(0))
        /\ o.maxM = RAbs(o.ma)
        /\ o.rb = Q(0)
        /\ loadType = "point" =>
             /\ o.ra = P
             /\ o.ma = Rat(-(loadMag * loadPos * beamLength), 100)
             /\ o.sfdPoints = <<Pt(Q(0), P), Pt(LoadX, P), Pt(LoadX, Q(0)),
                                Pt(DRAW_W, Q(0))>>
             /\ o.bmdPoints = <<Pt(Q(0), o.ma), Pt(LoadX, Q(0)),
                                Pt(DRAW_W, Q(0))>>
        /\ loadType = "udl" =>
             /\ o.ra = Q(loadMag * beamLength)
             /\ o.ma = Rat(-(loadMag * beamLength * beamLength), 2)
             /\ o.sfdPoints = <<Pt(Q(0), o.ra), Pt(DRAW_W, Q(0))>>
             /\ Len(o.bmdPoints) = 101
             /\ \A i \in 0..100 :
                  o.bmdPoints[i + 1].y =
                    Rat(-(loadMag * beamLength * beamLength
                            * (100 - i) * (100 - i)), 20000)
             /\ o.bmdPoints[101].y = Q(0)

\* a uniformly loaded cantilever, and one with a point load inside the span
C8_Witness ==
  /\ beamType = "cantilever"
  /\ beamLength = 20
  /\ \/ loadType = "udl" /\ loadMag = 100
     \/ loadType = "point" /\ loadPos = 25

C10_Reactions ==
  LET o     == trussOut
      pairs == <<<<0, 1>>, <<1, 2>>, <<3, 4>>, <<0, 3>>, <<3, 1>>, <<1, 4>>,
                 <<4, 2>>>>
  IN  /\ o.px = Rat(loadX * SPAN, 100)
      /\ o.r2 = Rat(trussLoadMag * loadX, 100)
      /\ o.r0 = Rat(trussLoadMag * (100 - loadX), 100)
      /\ RAdd(o.r0, o.r2) = Q(trussLoadMag)
      /\ Len(o.members) = 7
      /\ \A i \in 1..7 :
           /\ o.members[i].id = i - 1
           /\ <<o.members[i].nodeA, o.members[i].nodeB>> = pairs[i]

\* the load off midspan, with another magnitude than the initial one
C10_Witness ==
  /\ loadX = 35
  /\ trussLoadMag = 350
  /\ RLt(trussOut.r2, trussOut.r0)

\* force of the member with the given id
Force(id) == trussOut.members[id + 1].force

\* the load carried by bottom-chord node n, the load standing at loadX % of
\* the span: shared linearly between the two nodes next to it
NodeLoad(n) ==
  LET P == trussLoadMag
  IN  IF loadX <= 50
      THEN CASE n = 0 -> Rat(P * (50 - loadX), 50)
             [] n = 1 -> Rat(P * loadX, 50)
             [] OTHER -> Q(0)
      ELSE CASE n = 1 -> Rat(P * (100 - loadX), 50)
             [] n = 2 -> Rat(P * (loadX - 50), 50)
             [] OTHER -> Q(0)

\* sum of a sequence of numbers
RECURSIVE RSum(_)
RSum(seq) == IF seq = <<>> THEN Q(0) ELSE RAdd(seq[1], RSum(Tail(seq)))

\* sine of the angle of the diagonals: rise 4 over length 5
SinDiag == Rat(4, 5)

\* C11: at each of the five joints the vertical components of the member
\* forces (tension positive, a diagonal contributing force * sin, upwards at
\* a bottom joint and downwards at a top joint), the support reaction and
\* the nodal load sum to zero; joint 1 included.
C11_VerticalEquilibrium ==
  LET o == trussOut
      v(id) == RMul(Force(id), SinDiag)
  IN  /\ RSum(<<v(3), o.r0, RNeg(NodeLoad(0))>>) = Q(0)
      /\ RSum(<<v(4), v(5), RNeg(NodeLoad(1))>>) = Q(0)
      /\ RSum(<<v(6), o.r2, RNeg(NodeLoad(2))>>) = Q(0)
      /\ RSum(<<RNeg(v(3)), RNeg(v(4))>>) = Q(0)
      /\ RSum(<<RNeg(v(5)), RNeg(v(6))>>) = Q(0)

\* the load between node 1 and the right support, all inner diagonals loaded
C11_Witness ==
  /\ loadX = 65
  /\ trussLoadMag = 200
  /\ Force(4) # Q(0)
  /\ Force(5) # Q(0)
  /\ NodeLoad(1) # Q(0)
  /\ NodeLoad(2) # Q(0)

(***************************************************************************)
(* FrameAnalyzer claims                                                    *)
(***************************************************************************)
\* the moment at sample i (from 0) of a column field: the plotted x, negated
ColMoment(f, i) == RNeg(f[i + 1].x)

\* the moment at sample i (from 0) of the beam field
BeamMoment(i) == frameOut.beamCD[i + 1].y

\* H_load * H / 4
SwayExtreme == Rat(latLoad * height, 4)

\* m is linear over the samples 0..n
IsLinear(m(_), n) ==
  \A i \in 0..n :
    m(i) = RAdd(m(0), RMul(RSub(m(n), m(0)), Rat(i, n)))

\* C12: with gravity load 0 each column's and the beam's moment field is
\* linear in position, exactly zero at the mid-height / mid-span sample and
\* takes +H_load*H/4 at one end and -H_load*H/4 at the other; the beam
\* extremes use the column height H, not the span L.
C12_SwayField ==
  vertLoad = 0 =>
    LET ac(i) == ColMoment(frameOut.colAC, i)
        bd(i) == ColMoment(frameOut.colBD, i)
        cd(i) == BeamMoment(i)
        ends  == {SwayExtreme, RNeg(SwayExtreme)}
    IN  /\ IsLinear(ac, 10) /\ ac(5) = Q(0) /\ {ac(0), ac(10)} = ends
        /\ IsLinear(bd, 10) /\ bd(5) = Q(0) /\ {bd(0), bd(10)} = ends
        /\ IsLinear(cd, 20) /\ cd(10) = Q(0) /\ {cd(0), cd(20)} = ends

\* a sway-only state with H = 3 and L = 10: the extremes are 30*3/4 = 22.5
C12_Witness ==
  /\ vertLoad = 0
  /\ latLoad = 30
  /\ height = 3
  /\ span = 10
  /\ BeamMoment(0) = Rat(-45, 2)
  /\ BeamMoment(20) = Rat(45, 2)
  /\ ColMoment(frameOut.colAC, 0) = Rat(45, 2)

\* the sway value at beam sample i: from -H_load*H/4 to +H_load*H/4
SwayAt(i) == Rat(latLoad * height * (i - 10), 40)

\* the gravity value at beam sample i: V/2 times the distance to the nearer
\* joint, less 0.7*V*L/8
GravAt(i) ==
  LET near == IF i < 10 THEN i ELSE 20 - i
  IN  RSub(Rat(vertLoad * span * near, 40), Rat(7 * vertLoad * span, 80))

\* C13: with lateral load 0 and V_load > 0 the beam moment is negative and
\* equal to -0.7*V_load*L/8 at both joints, positive and equal to
\* V_load*L/4 - 0.7*V_load*L/8 at the midspan sample, and symmetric about
\* midspan; with any loads the beam field at every sample is the sum of the
\* sway value and the gravity value.
C13_GravityField ==
  /\ (latLoad = 0 /\ vertLoad > 0) =>
       LET node == Rat(-7 * vertLoad * span, 80)
           mid  == RSub(Rat(vertLoad * span, 4), Rat(7 * vertLoad * span, 80))
       IN  /\ BeamMoment(0) = node
           /\ BeamMoment(20) = node
           /\ RLt(node, Q(0))
           /\ BeamMoment(10) = mid
           /\ RLt(Q(0), mid)
           /\ \A i \in 0..20 : BeamMoment(i) = BeamMoment(20 - i)
  /\ \A i \in 0..20 : BeamMoment(i) = RAdd(SwayAt(i), GravAt(i))

\* a gravity-only state: V = 100, L = 10 gives -87.5 at the joints and
\* 162.5 at midspan
C13_Witness ==
  /\ latLoad = 0
  /\ vertLoad = 100
  /\ span = 10
  /\ BeamMoment(0) = Rat(-175, 2)
  /\ BeamMoment(10) = Rat(325, 2)

(***************************************************************************)
(* BucklingAnalyzer claims                                                 *)
(***************************************************************************)
\* the boundary classes from the weakest to the strongest, and their K
ClassOrder == <<"fixed-free", "pinned-pinned", "fixed-pinned", "fixed-fixed">>

ClassK == <<Rat(2, 1), Rat(1, 1), Rat(7, 10), Rat(1, 2)>>

\* what the module computes for boundary class b with the current L, P, EI
ForClass(b) == BucklingCalc(b, length, load, ei)

\* C14: Pcr(fixed-free) < Pcr(pinned-pinned) < Pcr(fixed-pinned) <
\* Pcr(fixed-fixed) for the same EI and L, with K = 2.0, 1.0, 0.7, 0.5 and
\* Pcr = pi^2*EI/(K*L)^2; a load that buckles a class also buckles every
\* class earlier in this order.
C14_ClassOrdering ==
  /\ bucklingOut = ForClass(bc)
  /\ \A i \in 1..4 :
       /\ BOUNDARIES[ClassOrder[i]].k = ClassK[i]
       /\ ForClass(ClassOrder[i]).pCr =
            RDiv(RMul(RSq(PI), Q(ei)), RSq(RMul(ClassK[i], Q(length))))
  /\ \A i \in 1..3 :
       RLt(ForClass(ClassOrder[i]).pCr, ForClass(ClassOrder[i + 1]).pCr)
  /\ \A i \in 1..4 : \A j \in i..4 :
       ForClass(ClassOrder[j]).isBuckled => ForClass(ClassOrder[i]).isBuckled

\* the load buckles the fixed-pinned column shown and so the two weaker
\* classes, but not the fixed-fixed one
C14_Witness ==
  /\ bc = "fixed-pinned"
  /\ bucklingOut.isBuckled
  /\ ForClass("pinned-pinned").isBuckled
  /\ ForClass("fixed-free").isBuckled
  /\ ~ForClass("fixed-fixed").isBuckled

\* C15: the column is buckled exactly when P > Pcr (equivalently, P being
\* positive, when Pcr/P < 1; P = Pcr is not buckled); the amplitude is 0
\* when not buckled, positive when buckled, equal to 50*(P-Pcr)/Pcr below
\* the clamp, and never above 60.
C15_FlagAndAmplitude ==
  LET o   == bucklingOut
      P   == Q(load)
      raw == RMul(Q(50), RDiv(RSub(P, o.pCr), o.pCr))
  IN  /\ o.isBuckled <=> RLt(o.pCr, P)
      /\ o.isBuckled <=> RLt(RDiv(o.pCr, P), Q(1))
      /\ o.safetyFactor = RDiv(o.pCr, P)
      /\ P = o.pCr => ~o.isBuckled
      /\ ~o.isBuckled => o.maxDeflection = Q(0)
      /\ o.isBuckled => RLt(Q(0), o.maxDeflection)
      /\ (o.isBuckled /\ RLe(raw, Q(60))) => o.maxDeflection = raw
      /\ RLe(o.maxDeflection, Q(60))

\* P = 500 just above Pcr = 484: buckled, amplitude 50*16/484 below the clamp
C15_Witness ==
  /\ load = 500
  /\ bucklingOut.pCr = Q(484)
  /\ bucklingOut.isBuckled
  /\ bucklingOut.maxDeflection = Rat(200, 121)

(***************************************************************************)
(* MohrTransform claims                                                    *)
(***************************************************************************)
\* C16: center = (sx+sy)/2; radius = sqrt(((sx-sy)/2)^2 + txy^2) >= 0;
\* s1 = center + radius and s2 = center - radius, so that s1 + s2 = sx + sy
\* and s1 >= s2, with s1 = s2 exactly when sx = sy and txy = 0; the maximum
\* shear is the radius; exchanging sx and sy, or negating txy, changes no
\* output.
C16_Circle ==
  LET o == mohrOut
      ctr == Surd(o.center)
  IN  /\ RMul(Q(2), o.center) = Q(sx + sy)
      /\ SNonNeg(o.radius)
      /\ SSq(o.radius) = Surd(Rat((sx - sy) * (sx - sy) + 4 * txy * txy, 4))
      /\ SSub(o.s1, ctr) = o.radius
      /\ SSub(ctr, o.s2) = o.radius
      /\ SAdd(o.s1, o.s2) = Surd(Q(sx + sy))
      /\ SLe(o.s2, o.s1)
      /\ (o.s1 = o.s2) <=> (sx = sy /\ txy = 0)
      /\ o.maxShear = o.radius
      /\ MohrCalc(sy, sx, txy) = o
      /\ MohrCalc(sx, sy, -txy) = o

\* a state with unequal normal stresses and shear, irrational radius
\* sqrt(45^2 + 20^2)
C16_Witness ==
  /\ sx = -20
  /\ sy = 70
  /\ txy = -20
  /\ mohrOut.radius = <<Q(0), Q(1), Q(2425)>>
  /\ mohrOut.s1 = <<Q(25), Q(1), Q(2425)>>
  /\ mohrOut.s2 = <<Q(25), Q(-1), Q(2425)>>

(***************************************************************************)
(* SectionAnalyzer claims                                                  *)
(***************************************************************************)
\* the bending stress the module computes for moment m, the section being
\* the current one
SigmaFor(m) ==
  SectionCalc(sectionType, m, secHeight, secWidth, tf, tw).sigmaMax

\* C17: for the rectangle I = b*h^3/12 (b = 200, h = 400 gives
\* 200*400^3/12); for a fixed geometry of either shape the stress
\* sigma = M*(h/2)/I is linear in M: sigma(c*M) = c*sigma(M) and
\* sigma(M1 + M2) = sigma(M1) + sigma(M2).
C17_RectangleAndLinearity ==
  LET o == sectionOut
  IN  /\ sectionType = "rect" =>
           XMul(o.I, XOf(12)) = XMul(XOf(secWidth), XPow3(XOf(secHeight)))
      /\ (sectionType = "rect" /\ secWidth = 200 /\ secHeight = 400) =>
           o.I = <<Rat(32, 3), 8>>
      /\ XMul(XMul(o.sigmaMax, o.I), XOf(2)) =
           XMul(XMul(XOf(moment), XOf(1000000)), XOf(secHeight))
      /\ o.sigmaMax = SigmaFor(moment)
      /\ \A m1 \in MomentValues : \A m2 \in MomentValues :
           SigmaFor(m1 + m2) = XAdd(SigmaFor(m1), SigmaFor(m2))
      /\ \A m \in MomentValues : \A n \in {2, 5, 10} :
           SigmaFor(n * m) = XMul(XOf(n), SigmaFor(m))

\* the 200 x 400 rectangle under 500 kNm: 93.75 MPa
C17_Witness ==
  /\ sectionType = "rect"
  /\ secWidth = 200
  /\ secHeight = 400
  /\ moment = 500
  /\ sectionOut.sigmaMax = XDiv(XOf(9375), XOf(100))

\* the I-beam geometry is degenerate: the flanges meet, or the web is as
\* wide as the flange
Degenerate == 2 * tf >= secHeight \/ tw >= secWidth

C19_IBeamPositive ==
  (/\ sectionType = "i-beam"
   /\ secWidth > 0 /\ secHeight > 0
   /\ 0 < tw /\ tw < secWidth
   /\ 0 < tf /\ 2 * tf < secHeight) =>
    LET o == sectionOut
    IN  /\ XLt(XOf(0), o.I)
        /\ XLt(o.I, XDiv(XMul(XOf(secWidth), XPow3(XOf(secHeight))),
                         XOf(12)))
        /\ XIsFinite(o.sigmaMax)
        /\ XSgn(o.sigmaMax) = Sgn(moment)

\* the stockiest I-beam of the sliders (h = 100, tf = 40, b = 50, tw = 30)
\* under a reversed moment
C19_Witness ==
  /\ sectionType = "i-beam"
  /\ secHeight = 100
  /\ tf = 40
  /\ secWidth = 50
  /\ tw = 30
  /\ moment = -50
  /\ XSgn(sectionOut.sigmaMax) = -1

(***************************************************************************)
(* RCBeamAnalyzer claims                                                   *)
(***************************************************************************)
\* the class of the current section by the stated priority
ClassByPriority ==
  LET As_min == Rat(2 * rcB * rcH, 1000)
      As_bal == rcOut.As_bal
  IN  IF RLt(As, As_min) THEN "min"
      ELSE IF RLe(As, RMul(Rat(95, 100), As_bal)) THEN "under"
      ELSE IF RLe(As, As_bal) THEN "balanced"
      ELSE "over"

\* C20: the section is in exactly one of the classes under-minimum,
\* under-reinforced, balanced, over-reinforced: under-minimum if
\* As < As_min = 0.002*b*h, even if As > As_bal; else under-reinforced if
\* As <= 0.95*As_bal; else balanced if As <= As_bal, equality included;
\* else over-reinforced.  The class depends on the current fc, fy, b, h and
\* As only.
C20_Classification ==
  /\ rcOut.mode \in {"min", "under", "balanced", "over"}
  /\ rcOut.As_min = Rat(2 * rcB * rcH, 1000)
  /\ rcOut.mode = ClassByPriority
  /\ As = rcOut.As_bal => rcOut.mode \in {"min", "balanced"}
  /\ rcOut = ConcreteRender(fc, fy, rcB, rcH, As)

\* a steel area under the minimum and over the balanced area
C20_Witness ==
  /\ RLt(As, rcOut.As_min)
  /\ RLt(rcOut.As_bal, As)
  /\ rcOut.mode = "min"

\* C21: for the module's section (fy = 400, b = 250, h = 500, cover 40) and
\* every fc of the slider, As = 0.5*As_bal is under-reinforced,
\* As = 1.5*As_bal is over-reinforced and every As < As_min is
\* under-minimum; the first two hold in the state a preset button leaves.
C21_Presets ==
  /\ [](/\ fy = 400 /\ rcB = 250 /\ rcH = 500 /\ rcOut.h0 = Q(460)
        /\ As = RMul(Rat(1, 2), rcOut.As_bal) => rcOut.mode = "under"
        /\ As = RMul(Rat(3, 2), rcOut.As_bal) => rcOut.mode = "over"
        /\ RLt(As, Rat(2 * rcB * rcH, 1000)) => rcOut.mode = "min")
  /\ [][/\ PresetUnder =>
             As' = RMul(Rat(1, 2), rcOut.As_bal) /\ rcOut'.mode = "under"
        /\ PresetOver =>
             As' = RMul(Rat(3, 2), rcOut.As_bal) /\ rcOut'.mode = "over"]_vars

\* the state the over-reinforced preset leaves with the strongest concrete
C21_Witness ==
  /\ fc = 60
  /\ As = RMul(Rat(3, 2), rcOut.As_bal)
  /\ rcOut.mode = "over"

Within1Percent(v, ref) ==
  /\ TLe(TQ(RMul(ref, Rat(99, 100))), v)
  /\ TLe(v, TQ(RMul(ref, Rat(101, 100))))

\* C23: h0 = h - cover, xi_b = eps_cu/(eps_cu + fy/Es),
\* As_bal = alpha1*fc*b*xi_b*h0/fy; in the classes under-minimum,
\* under-reinforced and balanced x = fy*As/(alpha1*fc*b), xi = x/h0 and
\* Mn = alpha1*fc*b*x*(h0 - x/2) (N*mm, shown in kN*m); for fc = 30,
\* fy = 400, b = 250, h = 500, As = 1000 the class is under-reinforced and
\* As_bal, x, Mn are within 1% of 5370, 53.3 and 173.3.
C23_Formulas ==
  LET o  == rcOut
      h0 == Q(rcH - 40)
  IN  /\ o.h0 = h0
      /\ RMul(o.xi_b, RAdd(Rat(33, 10000), Rat(fy, 200000))) = Rat(33, 10000)
      /\ RMul(o.As_bal, Q(fy)) = RMul(RMul(Q(fc * rcB), o.xi_b), h0)
      /\ o.mode # "over" =>
           /\ TEq(TMul(o.x, TQ(Q(fc * rcB))), TQ(RMul(Q(fy), As)))
           /\ TEq(TMul(o.xi, TQ(h0)), o.x)
           /\ TEq(TMul(o.Mn, TQ(Q(1000000))),
                  TMul(TMul(TQ(Q(fc * rcB)), o.x),
                       TSub(TQ(h0), TDiv(o.x, TQ(Q(2))))))
      /\ (fc = 30 /\ fy = 400 /\ rcB = 250 /\ rcH = 500 /\ As = Q(1000)) =>
           /\ o.mode = "under"
           /\ Within1Percent(TQ(o.As_bal), Q(5370))
           /\ Within1Percent(o.x, Rat(533, 10))
           /\ Within1Percent(o.Mn, Rat(1733, 10))

\* the section of the hand calculation, come back to from other slider
\* positions
C23_Witness ==
  /\ fc = 30 /\ fy = 400 /\ rcB = 250 /\ rcH = 500 /\ As = Q(1000)
  /\ rcOut.mode = "under"
  /\ TEq(rcOut.x, TQ(Rat(160, 3)))
  /\ TEq(rcOut.Mn, TQ(Rat(520, 3)))

\* alpha1*fc*b*x^2 + Es*eps_cu*As*x - Es*eps_cu*As*h0, for the current
\* section
RootResidual(x) ==
  LET A  == TQ(Q(fc * rcB))
      B  == TMul(TQ(Q(660)), TQ(As))
      h0 == TQ(Q(rcH - 40))
  IN  TSub(TAdd(TMul(A, TMul(x, x)), TMul(B, x)), TMul(B, h0))

\* C27: 0 < x < h0; in the under-reinforced and balanced classes
\* xi <= xi_b, the steel strain is at least fy/Es and the steel stress is
\* fy; in the over-reinforced class x is the positive root of
\* alpha1*fc*b*x^2 + Es*eps_cu*As*x - Es*eps_cu*As*h0 = 0, xi > xi_b and the
\* steel stress Es*eps_cu*(h0 - x)/x is below fy; at As = As_bal the
\* over-reinforced formulas give the x and Mn of the balanced class.
C27_PhysicalConsistency ==
  LET o   == rcOut
      h0  == TQ(Q(rcH - 40))
      fyT == TQ(Q(fy))
      xb  == xOf(fc, fy, rcB, o.As_bal)
      xo  == xOverOf(fc, rcB, rcH, o.As_bal)
  IN  /\ TSgn(o.x) > 0
      /\ TLt(o.x, h0)
      /\ o.mode \in {"under", "balanced"} =>
           /\ TLe(o.xi, TQ(o.xi_b))
           /\ TLe(TQ(Rat(fy, 200000)), o.eps_s)
           /\ TEq(o.sigma_s, fyT)
      /\ o.mode = "over" =>
           /\ TSgn(RootResidual(o.x)) = 0
           /\ ~TIsNaN(RootResidual(o.x))
           /\ TLt(TQ(o.xi_b), o.xi)
           /\ TEq(o.sigma_s, TDiv(TMul(TQ(Q(660)), TSub(h0, o.x)), o.x))
           /\ TLt(o.sigma_s, fyT)
      /\ TEq(xo, xb)
      /\ TEq(MnOf(fc, rcB, rcH, xo), MnOf(fc, rcB, rcH, xb))

\* an over-reinforced section of the sliders: x is irrational and the steel
\* does not yield
C27_Witness ==
  /\ fc = 20
  /\ As = Q(4000)
  /\ rcOut.mode = "over"
  /\ ~TIsRat(rcOut.x)
  /\ TLt(rcOut.sigma_s, TQ(Q(fy)))

\* C24: at most one animation-frame callback is pending at any time and
\* none while stopped; a parameter change while running cancels the pending
\* callback and schedules exactly one new one; a tick consumes the pending
\* callback, so that no frame applies a tick twice.
C24_SingleLoop ==
  /\ [](/\ Cardinality(frames) <= 1
        /\ ~isPlaying => frames = {}
        /\ \A f \in frames : f.id = requestRef)
  /\ [][/\ (lastOp' = "param" /\ isPlaying) =>
             /\ Cardinality(frames') = 1
             /\ frames' \cap frames = {}
             /\ \A f \in frames : \A g \in frames' : g.id # f.id
        /\ lastOp' = "tick" =>
             /\ Cardinality(frames) = 1
             /\ Cardinality(frames') = 1
             /\ \A f \in frames : \A g \in frames' : g.id # f.id]_vars

\* a parameter changed while running, between two ticks
C24_Witness ==
  /\ lastOp = "param"
  /\ isPlaying
  /\ ticks >= 1
  /\ Cardinality(frames) = 1

\* C25: after a change of m, k, c, F0 or w while running, every later tick
\* computes the acceleration from the new values: the queued stepPhysics has
\* captured the current values, and a tick uses them; the change leaves
\* (time, displacement, velocity) and the running status as they are.
C25_FreshParameters ==
  /\ [](\A f \in frames : f.cl = Closure)
  /\ [][/\ lastOp' = "param" => (Osc' = Osc /\ isPlaying' = isPlaying)
        /\ lastOp' = "tick" =>
             LET F == 10 * fMag * Sin(RMul(fFreq, timeRef))
                 a == FDivI(F - k * posRef - FMulR(velRef, c), mass)
             IN  /\ forceVal' = F
                 /\ velRef' = velRef + FMulR(a, Rat(16, 1000))]_vars

\* a tick taken after the stiffness and the mass were changed while running
C25_Witness ==
  /\ lastOp = "tick"
  /\ isPlaying
  /\ k = 100
  /\ mass = 10
  /\ ticks >= 2

\* C26: switching the active module away from the simulator while it runs
\* cancels the pending tick and no tick executes afterwards; returning to it
\* starts from the stopped initial state (0, 100, 0); exactly one module is
\* active at any time, and the simulator runs only while it is that module.
C26_Teardown ==
  /\ [](/\ activeModule \in ModuleType
        /\ renderModule(activeModule) # "VibrationModule" =>
             (~isPlaying /\ frames = {}))
  /\ [][/\ lastOp' = "tick" =>
             (/\ renderModule(activeModule) = "VibrationModule"
              /\ isPlaying)
        /\ activeModule' # activeModule =>
             (/\ frames' = {}
              /\ ~isPlaying'
              /\ Osc' = OscInitial)]_vars

\* the simulator left while it was running, a tick pending
C26_Witness ==
  /\ lastOp = "leave-running"
  /\ activeModule = "MOHR"
  /\ frames = {}

\* cosine of the angle of the diagonals: run 3 over length 5
CosDiag == Rat(3, 5)

\* the nodal loads p0, p1, p2 the member forces are computed from
CodeLoads == NodalLoads(Q(trussLoadMag), trussOut.px)

\* C28: the load is split onto the two bottom-chord nodes next to it, the
\* nodal loads are not negative and p0 + p1 + p2 = P, the two branches giving
\* the same loads at midspan; at each of the five joints the horizontal
\* components of the member forces (tension positive, a diagonal
\* contributing force * cos) sum to zero, joints 1 and 4 included, and
\* f03 = f42.
C28_HorizontalEquilibrium ==
  LET p == CodeLoads
      u(id) == RMul(Force(id), CosDiag)
  IN  /\ p.p0 = NodeLoad(0) /\ p.p1 = NodeLoad(1) /\ p.p2 = NodeLoad(2)
      /\ RLe(Q(0), p.p0) /\ RLe(Q(0), p.p1) /\ RLe(Q(0), p.p2)
      /\ RSum(<<p.p0, p.p1, p.p2>>) = Q(trussLoadMag)
      /\ loadX < 50 => p.p2 = Q(0)
      /\ loadX > 50 => p.p0 = Q(0)
      /\ loadX = 50 =>
           /\ p = [p0 |-> Q(0), p1 |-> Q(trussLoadMag), p2 |-> Q(0)]
           /\ Rat(trussLoadMag * loadX, 50)
                = Rat(trussLoadMag * (100 - loadX), 50)
      /\ RSum(<<Force(0), u(3)>>) = Q(0)
      /\ RSum(<<RNeg(Force(0)), Force(1), RNeg(u(4)), u(5)>>) = Q(0)
      /\ RSum(<<RNeg(Force(1)), RNeg(u(6))>>) = Q(0)
      /\ RSum(<<RNeg(u(3)), u(4), Force(2)>>) = Q(0)
      /\ RSum(<<RNeg(Force(2)), RNeg(u(5)), u(6)>>) = Q(0)
      /\ Force(3) = Force(6)

\* the load between the left support and node 1, the top chord compressed
C28_Witness ==
  /\ loadX = 20
  /\ trussLoadMag = 500
  /\ CodeLoads.p0 # Q(0)
  /\ CodeLoads.p1 # Q(0)
  /\ RLt(Force(2), Q(0))
  /\ Force(3) = Force(6)

\* C29: with P > 0 the bottom chords 0-1 and 1-2 and the inner diagonals 3-1
\* and 1-4 carry a force >= 0, the top chord 3-4 and the outer diagonals 0-3
\* and 4-2 a force <= 0, strictly so for 0 < px < L; with the load on a
\* support all seven forces are 0; a member is drawn as a zero member if
\* |F| < 1, in tension if F >= 1, in compression if F <= -1.
C29_SignPattern ==
  LET o == trussOut
  IN  /\ trussLoadMag > 0
      /\ \A id \in {0, 1, 4, 5} :
           /\ RLe(Q(0), Force(id))
           /\ (0 < loadX /\ loadX < 100) => RLt(Q(0), Force(id))
      /\ \A id \in {2, 3, 6} :
           /\ RLe(Force(id), Q(0))
           /\ (0 < loadX /\ loadX < 100) => RLt(Force(id), Q(0))
      /\ loadX \in {0, 100} => \A id \in 0..6 : Force(id) = Q(0)
      /\ DOMAIN o.stroke = 1..7
      /\ \A id \in 0..6 :
           /\ o.stroke[id + 1] \in {"#94a3b8", "#ef4444", "#3b82f6"}
           /\ o.stroke[id + 1] = "#94a3b8" <=>
                (RLt(Q(-1), Force(id)) /\ RLt(Force(id), Q(1)))
           /\ o.stroke[id + 1] = "#ef4444" <=> RLe(Q(1), Force(id))
           /\ o.stroke[id + 1] = "#3b82f6" <=> RLe(Force(id), Q(-1))

\* a small load next to the left support: the outer diagonal carries -1 and
\* is drawn in compression, the bottom chord carries 0.6 and is drawn as a
\* zero member
C29_Witness ==
  /\ loadX = 1
  /\ trussLoadMag = 80
  /\ Force(3) = Q(-1)
  /\ trussOut.stroke[4] = "#3b82f6"
  /\ Force(0) = Rat(3, 5)
  /\ trussOut.stroke[1] = "#94a3b8"

\* lateral offset of the drawn column at sample i
OffsetAt(i) == RSub(bucklingOut.path[i].x, Q(COL_X))

\* C30: in a buckled state the lateral offset is zero at each supported end:
\* at the floor end (t = 1, drawn at MARGIN_TOP + COL_H) in all four classes
\* and at the top end (t = 0) in every class but fixed-free, whose free top
\* carries the full amplitude, the offset by which the load arrow is
\* shifted.
C30_SupportedEnds ==
  bucklingOut.isBuckled =>
    /\ bucklingOut.path[steps].y = Q(MARGIN_TOP + COL_H)
    /\ bucklingOut.path[0].y = Q(MARGIN_TOP)
    /\ OffsetAt(steps) = Q(0)
    /\ bc # "fixed-free" => OffsetAt(0) = Q(0)
    /\ bc = "fixed-free" =>
         /\ OffsetAt(0) = bucklingOut.maxDeflection
         /\ OffsetAt(0) = bucklingOut.arrowShift

====
